---- MODULE Spec2Model ----
(***************************************************************************)
(* A model of the core of the flux daemon and its control service:         *)
(*   - the platform RPC bus over NATS   (platform/rpc/nats/bus.go)         *)
(*   - the cluster adapter's Sync queue (package kubernetes)               *)
(*   - the daemon facade's UpdateImages (package daemon)                   *)
(*   - the release engine's selection   (package release)                  *)
(* Each subsystem has its own specification over the shared variables.     *)
(***************************************************************************)
EXTENDS Integers, Sequences, FiniteSets, TLC

(***************************************************************************)
(* Bounds of the model.                                                    *)
(***************************************************************************)
\* number of daemons that call Subscribe for the (single) instance
NumSubs == 2
\* number of client requests published on the bus
MaxRequests == 1
\* number of SyncCluster requests among them
MaxSlow == 1
\* number of daemons that subscribe where the serving of requests is studied
NumServing == 1
\* largest number of pings one AwaitPresence call makes
MaxAttempts == 2
\* number of concurrent callers of Cluster.Sync
NumCallers == 2
\* largest number of actions in a SyncDef
MaxActions == 2
\* number of UpdateImages calls made on the daemon
MaxUpdates == 2
\* number of service IDs that manifests, selectors and the cluster range over
NumServices == 2
\* number of images a repository's list holds at most
MaxImages == 2
\* number of updates writeUpdates is given at most
MaxWrites == 2
\* number of annotation changes made to one manifest
MaxEdits == 2

VARIABLES
    \* ---- platform RPC bus (one instance) ----
    pc,         \* per subscriber: position of Subscribe and of its request loop
    subscribed, \* per subscriber: the transport subscription `sub` is live
    requests,   \* per subscriber: messages delivered on its `requests` channel
    loopErr,    \* per subscriber: the error the loop has received from errc
    handlers,   \* per subscriber: the processRequest tasks (running and ended)
    done,       \* per subscriber: the values sent on its `done` channel
    kicks,      \* metrics.IncrKicks counter of the instance
    nextReq,    \* number of client requests published so far
    nextSlow,   \* number of them that were SyncCluster requests
    replies,    \* responses published on the reply subjects
    \* ---- cluster adapter: Sync and its action queue ----
    callPc,     \* per Sync caller: position inside Cluster.Sync
    ret,        \* per Sync caller: the value Sync returned
    exec,       \* per Sync caller: the run of the closure it submitted
    loopIn,     \* the closure Cluster.loop is executing (0: waiting on actionc)
    applierLog, \* the applier's Delete/Apply calls, in the order they were made
    \* ---- daemon facade: UpdateImages ----
    dPc,        \* position inside Daemon.UpdateImages
    dCalls,     \* number of UpdateImages calls made
    clock,      \* time.Now()
    dRelease,   \* the flux.Release record UpdateImages builds
    dExecErr,   \* the error release.Release returned
    dLogErr,    \* the error d.LogEvent returned
    dRet,       \* what UpdateImages returned: results and error
    events,     \* the events handed to LogEvent, in call order
    iPc,        \* where the ListImages call is
    iSpec,      \* the flux.ServiceSpec ListImages was called with
    iServices,  \* services, as set by the cluster adapter's answer
    iClusterErr, \* the error the cluster adapter returned to ListImages
    iRet,       \* what ListImages returned: the image statuses and the error
    \* ---- release engine: ReleaseContext.SelectServices ----
    rPc,        \* position inside SelectServices
    files,      \* the manifest lookup: ServiceID -> number of files found for
                \* it (-1: the lookup has no entry for the service)
    prior,      \* argument: the flux.ReleaseResult as it was passed in
    cluster,    \* the services running in the cluster
    included,   \* argument: the services to include, or nil
    locked,     \* argument: the locked services
    excluded,   \* argument: the excluded services
    defined,    \* local: the ServiceUpdates FindDefinedServices returned
    ids,        \* local: the candidate IDs, in the order they were found
    updateMap,  \* local: candidate ID -> ServiceUpdate
    results,    \* argument: the flux.ReleaseResult being filled in
    updates,    \* returned: the list of ServiceUpdates
    rErr,       \* returned: the error
    \* ---- clients of the bus: natsPlatform, NATS.Ping, NATS.AwaitPresence ----
    cPc,        \* position inside a client-side request
    cMethod,    \* the method requested
    cTransport, \* the error conn.Request returned (nil: a response came)
    cHandlerErr,\* the error the daemon's handler put in the response
    cRet,       \* the error the client-side request returned
    aPc,        \* position inside AwaitPresence
    aExpired,   \* the deadline of AwaitPresence has passed
    aPings,     \* the results of the pings AwaitPresence made
    aRet,       \* what AwaitPresence returned
    \* ---- instance construction: MultitenantInstancer.Get ----
    gPc,        \* position inside Get
    gConfigOK,  \* the DB holds a readable config for the instance
    gPresent,   \* a daemon is subscribed on the bus for the instance
    gRet,       \* what Get returned: an Instance or not, and the error
    \* ---- image metadata: ImageMap.latestImage ----
    lPc,        \* position of the caller of latestImage
    lMap,       \* the ImageMap: repository -> images, newest first
    lRepo,      \* argument: the repository asked for
    lRet,       \* what latestImage returned
    \* ---- cluster adapter: queries ----
    kPc,        \* position of the caller of a query
    kObjects,   \* the services and pod controllers the API server holds
    kQuery,     \* the query made and its argument
    kResult,    \* what the query returned
    \* ---- release engine: writeUpdates ----
    wPc,        \* position inside writeUpdates
    before,     \* the files of the working copy as they were before
    disk,       \* the files of the working copy: path -> mode and bytes
    wUpdates,   \* argument: the ServiceUpdates to write
    wNext,      \* index of the update the loop is at
    wFi,        \* local: the mode os.Stat reported
    wErr,       \* what writeUpdates returned
    pushed,     \* number of CommitAndPush calls PushChanges made
    pRet,       \* what PushChanges returned
    \* ---- manifest annotations ----
    mPc,        \* position of the caller
    mIn,        \* argument: the manifest
    mCall,      \* the function called and its annotation argument
    mOut        \* the manifest written to the output

busVars == <<pc, subscribed, requests, loopErr, handlers, done, kicks,
             nextReq, nextSlow, replies>>

syncVars == <<callPc, ret, exec, loopIn, applierLog>>

updateVars == <<dPc, dCalls, clock, dRelease, dExecErr, dLogErr, dRet, events>>

listVars == <<iPc, iSpec, iServices, iClusterErr, iRet>>

daemonVars == <<dPc, dCalls, clock, dRelease, dExecErr, dLogErr, dRet, events,
                iPc, iSpec, iServices, iClusterErr, iRet>>

relVars == <<rPc, files, prior, cluster, included, locked, excluded, defined, ids,
             updateMap, results, updates, rErr>>

clientVars == <<cPc, cMethod, cTransport, cHandlerErr, cRet, aPc, aExpired,
                aPings, aRet>>

instVars == <<gPc, gConfigOK, gPresent, gRet>>

imgVars == <<lPc, lMap, lRepo, lRet>>

kubeVars == <<kPc, kObjects, kQuery, kResult>>

diskVars == <<wPc, before, disk, wUpdates, wNext, wFi, wErr, pushed, pRet>>

annVars == <<mPc, mIn, mCall, mOut>>

vars == <<busVars, syncVars, daemonVars, relVars, clientVars, instVars,
          imgVars, kubeVars, diskVars, annVars>>

\* a step of one subsystem leaves the others alone
OnlyBus ==
    UNCHANGED <<syncVars, daemonVars, relVars, clientVars, instVars,
                imgVars, kubeVars, diskVars, annVars>>

OnlySync ==
    UNCHANGED <<busVars, daemonVars, relVars, clientVars, instVars,
                imgVars, kubeVars, diskVars, annVars>>

OnlyDaemon ==
    UNCHANGED <<busVars, syncVars, relVars, clientVars, instVars,
                imgVars, kubeVars, diskVars, annVars>>

OnlyRelease ==
    UNCHANGED <<busVars, syncVars, daemonVars, clientVars, instVars,
                imgVars, kubeVars, diskVars, annVars>>

OnlyClient ==
    UNCHANGED <<busVars, syncVars, daemonVars, relVars, instVars,
                imgVars, kubeVars, diskVars, annVars>>

OnlyInstance ==
    UNCHANGED <<busVars, syncVars, daemonVars, relVars, clientVars,
                imgVars, kubeVars, diskVars, annVars>>

OnlyImages ==
    UNCHANGED <<busVars, syncVars, daemonVars, relVars, clientVars,
                instVars, kubeVars, diskVars, annVars>>

OnlyKube ==
    UNCHANGED <<busVars, syncVars, daemonVars, relVars, clientVars,
                instVars, imgVars, diskVars, annVars>>

OnlyDisk ==
    UNCHANGED <<busVars, syncVars, daemonVars, relVars, clientVars,
                instVars, imgVars, kubeVars, annVars>>

OnlyAnnotations ==
    UNCHANGED <<busVars, syncVars, daemonVars, relVars, clientVars,
                instVars, imgVars, kubeVars, diskVars>>

(***************************************************************************)
(* Errors.  An error value is its message and whether it is a              *)
(* platform.FatalError; Nil is Go's nil error.  The message is a sequence   *)
(* of parts; the empty sequence is the empty string.                       *)
(***************************************************************************)
Nil == [nil |-> TRUE, fatal |-> FALSE, msg |-> <<>>]

FatalError(m) == [nil |-> FALSE, fatal |-> TRUE, msg |-> m]

PlainError(m) == [nil |-> FALSE, fatal |-> FALSE, msg |-> m]

\* "Kicked by new subscriber " + id
KickedBy(id) == FatalError(<<"Kicked by new subscriber ", id>>)

\* what the remote platform.Platform may return from a method
RemoteOutcomes ==
    {Nil, PlainError(<<"remote error">>), FatalError(<<"remote fatal">>)}

\* the error of a failed ChanSubscribe
SubscribeError == PlainError(<<"nats: subscribe failed">>)

(***************************************************************************)
(* The bus.                                                                *)
(***************************************************************************)
Subs == 1..NumSubs

\* guid.New(): every Subscribe call draws an ID no other call has
myID(s) == s

methodKick == "Kick"
methodPing == "Ping"
methodSyncCluster == "SyncCluster"

KickMsg(id) == [subject |-> methodKick, data |-> id, reply |-> 0]

PingMsg(rid) == [subject |-> methodPing, data |-> 0, reply |-> rid]

SyncClusterMsg(rid) == [subject |-> methodSyncCluster, data |-> 0, reply |-> rid]

\* ErrorResponse of an error
makeErrorResponse(err) ==
    IF err = Nil THEN [Error |-> <<>>, Fatal |-> FALSE]
    ELSE [Error |-> err.msg, Fatal |-> err.fatal]

\* The subscriptions a message published on "<instID>.Platform.<method>"
\* reaches: every live subscription on "<instID>.Platform.>".
Recipients_NoWildcard(s) == {s}

Recipients(s) == {t \in Subs : subscribed[t]}

Deliver(m, to) ==
    [t \in Subs |-> IF t \in to THEN Append(requests[t], m) ELSE requests[t]]

NewHandler(m) ==
    [m |-> m, st |-> "run", err |-> Nil, accepted |-> FALSE, remote |-> FALSE]

\* encoder.Decode(request.Subject, request.Data, &req): the payload of a
\* request decodes, unless it is the malformed one
Malformed == -1

Decodes_Any(m) == TRUE

Decodes(m) == m.data # Malformed

DecodeError == PlainError(<<"nats: decode failed">>)

\* what processRequest gets for a request: the decode error, or else what
\* the remote method returns
RequestOutcomes(m) == IF Decodes(m) THEN RemoteOutcomes ELSE {DecodeError}

InitBus ==
    /\ pc = [s \in Subs |-> "idle"]
    /\ subscribed = [s \in Subs |-> FALSE]
    /\ requests = [s \in Subs |-> <<>>]
    /\ loopErr = [s \in Subs |-> Nil]
    /\ handlers = [s \in Subs |-> {}]
    /\ done = [s \in Subs |-> <<>>]
    /\ kicks = 0
    /\ nextReq = 0
    /\ nextSlow = 0
    /\ replies = {}

\* Subscribe, ChanSubscribe succeeds
ChanSubscribe(s) ==
    /\ OnlyBus
    /\ pc[s] = "idle"
    /\ subscribed' = [subscribed EXCEPT ![s] = TRUE]
    /\ pc' = [pc EXCEPT ![s] = "subscribed"]
    /\ UNCHANGED <<requests, loopErr, handlers, done, kicks, nextReq, nextSlow, replies>>

\* Subscribe, ChanSubscribe fails: done <- err; return
ChanSubscribeFails_GoesOn(s) ==
    /\ OnlyBus
    /\ pc[s] = "idle"
    /\ done' = [done EXCEPT ![s] = Append(@, SubscribeError)]
    /\ pc' = [pc EXCEPT ![s] = "subscribed"]
    /\ UNCHANGED <<subscribed, requests, loopErr, handlers, kicks, nextReq, nextSlow, replies>>

ChanSubscribeFails(s) ==
    /\ OnlyBus
    /\ pc[s] = "idle"
    /\ done' = [done EXCEPT ![s] = Append(@, SubscribeError)]
    /\ pc' = [pc EXCEPT ![s] = "failed"]
    /\ UNCHANGED <<subscribed, requests, loopErr, handlers, kicks, nextReq, nextSlow, replies>>

\* Subscribe publishes its kick and starts the request loop
PublishKick(s) ==
    /\ OnlyBus
    /\ pc[s] = "subscribed"
    /\ requests' = Deliver(KickMsg(myID(s)), Recipients(s))
    /\ pc' = [pc EXCEPT ![s] = "loop"]
    /\ UNCHANGED <<subscribed, loopErr, handlers, done, kicks, nextReq, nextSlow, replies>>

\* the loop reaches its select and waits there
EnterSelect(s) ==
    /\ OnlyBus
    /\ pc[s] = "loop"
    /\ pc' = [pc EXCEPT ![s] = "select"]
    /\ UNCHANGED <<subscribed, requests, loopErr, handlers, done, kicks, nextReq, nextSlow, replies>>

\* `case request := <-requests` can be taken: the loop is in its select and
\* a message is waiting; the handlers run on tasks of their own
CanDispatch_Inline(s) ==
    /\ pc[s] = "select"
    /\ requests[s] # <<>>
    /\ \A h \in handlers[s] : h.st = "done"

CanDispatch(s) ==
    /\ pc[s] = "select"
    /\ requests[s] # <<>>

\* case request := <-requests: go processRequest(request)
RecvRequest(s) ==
    /\ OnlyBus
    /\ CanDispatch(s)
    /\ handlers' = [handlers EXCEPT ![s] = @ \cup {NewHandler(Head(requests[s]))}]
    /\ requests' = [requests EXCEPT ![s] = Tail(@)]
    /\ pc' = [pc EXCEPT ![s] = "loop"]
    /\ UNCHANGED <<subscribed, loopErr, done, kicks, nextReq, nextSlow, replies>>

\* case <-forceReconnect.C
TimerFires(s) ==
    /\ OnlyBus
    /\ pc[s] = "select"
    /\ loopErr' = [loopErr EXCEPT ![s] = Nil]
    /\ pc' = [pc EXCEPT ![s] = "teardown"]
    /\ UNCHANGED <<subscribed, requests, handlers, done, kicks, nextReq, nextSlow, replies>>

\* the tear-down without sub.Unsubscribe()
TearDown_StaysSubscribed(s) ==
    /\ OnlyBus
    /\ pc[s] = "teardown"
    /\ requests' = [requests EXCEPT ![s] = <<>>]
    /\ done' = [done EXCEPT ![s] = Append(@, loopErr[s])]
    /\ pc' = [pc EXCEPT ![s] = "returned"]
    /\ UNCHANGED <<subscribed, loopErr, handlers, kicks, nextReq, nextSlow, replies>>

\* sub.Unsubscribe(); close(requests); done <- err; return
TearDown(s) ==
    /\ OnlyBus
    /\ pc[s] = "teardown"
    /\ subscribed' = [subscribed EXCEPT ![s] = FALSE]
    /\ requests' = [requests EXCEPT ![s] = <<>>]
    /\ done' = [done EXCEPT ![s] = Append(@, loopErr[s])]
    /\ pc' = [pc EXCEPT ![s] = "returned"]
    /\ UNCHANGED <<loopErr, handlers, kicks, nextReq, nextSlow, replies>>

SetHandler(s, h, h2) == [handlers EXCEPT ![s] = (@ \ {h}) \cup {h2}]

\* The non-blocking send on the unbuffered errc is taken only if the loop
\* is waiting in its select at that moment.
ErrcReceiverWaiting_Always(s) == TRUE

ErrcReceiverWaiting(s) == pc[s] = "select"

\* End of processRequest of handler h, which ends with error e: a fatal
\* error is offered on errc; any other error, and a fatal error nobody is
\* waiting for, is dropped.
Report(s, h, e) ==
    IF e.fatal /\ e # Nil /\ ErrcReceiverWaiting(s)
    THEN /\ loopErr' = [loopErr EXCEPT ![s] = e]
         /\ pc' = [pc EXCEPT ![s] = "teardown"]
         /\ handlers' = SetHandler(s, h, [h EXCEPT !.st = "done", !.err = e,
                                                   !.accepted = TRUE])
    ELSE /\ handlers' = SetHandler(s, h, [h EXCEPT !.st = "done", !.err = e])
         /\ UNCHANGED <<pc, loopErr>>

\* the error processRequest computes for a kick message
KickError_AnyKick(s, id) == KickedBy(id)

KickError(s, id) == IF id # myID(s) THEN KickedBy(id) ELSE Nil

\* processRequest, case methodKick
HandleKick(s, h) ==
    /\ OnlyBus
    /\ h \in handlers[s]
    /\ h.st = "run"
    /\ h.m.subject = methodKick
    /\ kicks' = IF h.m.data # myID(s) THEN kicks + 1 ELSE kicks
    /\ Report(s, h, KickError(s, h.m.data))
    /\ UNCHANGED <<subscribed, requests, done, nextReq, nextSlow, replies>>

\* processRequest, case methodPing: err = remote.Ping();
\* n.enc.Publish(request.Reply, PingResponse{makeErrorResponse(err)})
HandlePing(s, h) ==
    /\ OnlyBus
    /\ h \in handlers[s]
    /\ h.st = "run"
    /\ h.m.subject = methodPing
    /\ \E e \in RequestOutcomes(h.m) :
          /\ replies' = replies \cup
                {[rid |-> h.m.reply, from |-> s, resp |-> makeErrorResponse(e)]}
          /\ handlers' = SetHandler(s, h, [h EXCEPT !.st = "replied", !.err = e,
                                                   !.remote = Decodes(h.m)])
    /\ UNCHANGED <<pc, subscribed, requests, loopErr, done, kicks, nextReq, nextSlow>>

\* processRequest after its reply is published
HandlerEnds(s, h) ==
    /\ OnlyBus
    /\ h \in handlers[s]
    /\ h.st = "replied"
    /\ Report(s, h, h.err)
    /\ UNCHANGED <<subscribed, requests, done, kicks, nextReq, nextSlow, replies>>

\* a client's natsPlatform.Ping publishes a request on the instance's subject
\* (nextReq - nextSlow pings were published so far)
ClientPing ==
    /\ OnlyBus
    /\ nextReq - nextSlow < MaxRequests
    /\ nextReq' = nextReq + 1
    /\ requests' = Deliver(PingMsg(nextReq + 1), {t \in Subs : subscribed[t]})
    /\ UNCHANGED <<pc, subscribed, loopErr, handlers, done, kicks, nextSlow, replies>>

NextBus ==
    \/ \E s \in Subs : ChanSubscribe(s)
    \/ \E s \in Subs : ChanSubscribeFails(s)
    \/ \E s \in Subs : PublishKick(s)
    \/ \E s \in Subs : EnterSelect(s)
    \/ \E s \in Subs : RecvRequest(s)
    \/ \E s \in Subs : TimerFires(s)
    \/ \E s \in Subs : TearDown(s)
    \/ \E s \in Subs : \E h \in handlers[s] : HandleKick(s, h)
    \/ \E s \in Subs : \E h \in handlers[s] : HandlePing(s, h)
    \/ \E s \in Subs : \E h \in handlers[s] : HandlerEnds(s, h)
    \/ ClientPing

(***************************************************************************)
(* The bus serving requests: a slow method beside the pings.               *)
(***************************************************************************)
Serving == 1..NumServing

\* processRequest, case methodSyncCluster: err = remote.SyncCluster();
\* n.enc.Publish(request.Reply, SyncClusterResponse{makeErrorResponse(err)})
HandleSyncCluster(s, h) ==
    /\ OnlyBus
    /\ h \in handlers[s]
    /\ h.st = "run"
    /\ h.m.subject = methodSyncCluster
    /\ \E e \in RequestOutcomes(h.m) :
          /\ replies' = replies \cup
                {[rid |-> h.m.reply, from |-> s, resp |-> makeErrorResponse(e)]}
          /\ handlers' = SetHandler(s, h, [h EXCEPT !.st = "replied", !.err = e,
                                                   !.remote = Decodes(h.m)])
    /\ UNCHANGED <<pc, subscribed, requests, loopErr, done, kicks, nextReq, nextSlow>>

\* a client's natsPlatform.SyncCluster publishes its request
ClientSyncCluster ==
    /\ OnlyBus
    /\ nextSlow < MaxSlow
    /\ nextReq' = nextReq + 1
    /\ nextSlow' = nextSlow + 1
    /\ requests' = Deliver(SyncClusterMsg(nextReq + 1), {t \in Subs : subscribed[t]})
    /\ UNCHANGED <<pc, subscribed, loopErr, handlers, done, kicks, replies>>

NextServe ==
    \/ \E s \in Serving : ChanSubscribe(s)
    \/ \E s \in Serving : PublishKick(s)
    \/ \E s \in Serving : EnterSelect(s)
    \/ \E s \in Serving : RecvRequest(s)
    \/ \E s \in Serving : TimerFires(s)
    \/ \E s \in Serving : TearDown(s)
    \/ \E s \in Serving : \E h \in handlers[s] : HandleKick(s, h)
    \/ \E s \in Serving : \E h \in handlers[s] : HandlePing(s, h)
    \/ \E s \in Serving : \E h \in handlers[s] : HandleSyncCluster(s, h)
    \/ \E s \in Serving : \E h \in handlers[s] : HandlerEnds(s, h)
    \/ ClientPing
    \/ ClientSyncCluster

(***************************************************************************)
(* The bus answering requests: well-formed and malformed pings, messages   *)
(* with an unknown method, and the kick of a later subscriber.             *)
(***************************************************************************)
methodUnknown == "Bogus"

KnownMethods == {methodKick, methodPing, methodSyncCluster}

MalformedPingMsg(rid) == [subject |-> methodPing, data |-> Malformed, reply |-> rid]

UnknownMsg(rid) == [subject |-> methodUnknown, data |-> 0, reply |-> rid]

UnknownError == PlainError(<<"unknown message: ", methodUnknown>>)

\* processRequest, default case: no response is published
HandleUnknown(s, h) ==
    /\ OnlyBus
    /\ h \in handlers[s]
    /\ h.st = "run"
    /\ h.m.subject \notin KnownMethods
    /\ Report(s, h, UnknownError)
    /\ UNCHANGED <<subscribed, requests, done, kicks, nextReq, nextSlow, replies>>

\* a client publishes a request on the instance's subject
ClientRequest ==
    /\ OnlyBus
    /\ nextReq < MaxRequests
    /\ nextReq' = nextReq + 1
    /\ \E m \in {PingMsg(nextReq + 1), MalformedPingMsg(nextReq + 1), UnknownMsg(nextReq + 1)} :
          requests' = Deliver(m, {t \in Subs : subscribed[t]})
    /\ UNCHANGED <<pc, subscribed, loopErr, handlers, done, kicks, nextSlow, replies>>

\* the serving subscriptions run; a later daemon subscribes and publishes
\* its kick, and its own loop has not started yet
NextReply ==
    \/ \E s \in Subs : ChanSubscribe(s)
    \/ \E s \in Subs : PublishKick(s)
    \/ \E s \in Serving : EnterSelect(s)
    \/ \E s \in Serving : RecvRequest(s)
    \/ \E s \in Serving : TimerFires(s)
    \/ \E s \in Serving : TearDown(s)
    \/ \E s \in Serving : \E h \in handlers[s] : HandleKick(s, h)
    \/ \E s \in Serving : \E h \in handlers[s] : HandlePing(s, h)
    \/ \E s \in Serving : \E h \in handlers[s] : HandleUnknown(s, h)
    \/ \E s \in Serving : \E h \in handlers[s] : HandlerEnds(s, h)
    \/ ClientRequest

(***************************************************************************)
(* The cluster adapter: Cluster.Sync and Cluster.loop.                     *)
(***************************************************************************)
Callers == 1..NumCallers

ResourceIDs == {"r1", "r2"}

\* the manifest of a resource of kube-system that bears an addon label
AddonManifest == "kube-system addon yaml"

\* The bytes of a manifest: none, or some, which may describe an addon
Manifests == {"", "yaml", AddonManifest}

SyncActions == [ResourceID : ResourceIDs, Delete : Manifests, Apply : Manifests]

SyncDefs == UNION {[1..n -> SyncActions] : n \in 0..MaxActions}

ParseError == PlainError(<<"yaml: cannot unmarshal">>)

ApplierError == PlainError(<<"applier failed">>)

\* How one operation on a manifest may end: definitionObj fails, and the
\* applier is not called; or it parses and the applier returns nil or an
\* error.
OperationOutcomes == {ParseError, Nil, ApplierError}

\* platform.SyncError{}: a map from ResourceID to error
EmptySyncError == [r \in {} |-> Nil]

SetError(errs, id, e) ==
    [r \in DOMAIN errs \cup {id} |-> IF r = id THEN e ELSE errs[r]]

\* The run of a closure: where it is, its argument, the action and
\* operation it is at, its errs, and the applier calls it has made.  A
\* closure that has returned has no locals left.
NoExec == [stage |-> "none", spec |-> <<>>, i |-> 0, op |-> "",
           errs |-> EmptySyncError, calls |-> <<>>]

EndedExec == [NoExec EXCEPT !.stage = "ended"]

\* The next piece of work of the closure from action i, operation op on:
\* the Delete of an action with a Delete manifest, the Apply of one with
\* an Apply manifest; the end of the loop is i = Len(spec) + 1.
RECURSIVE NextWork(_, _, _)
NextWork(spec, i, op) ==
    IF i > Len(spec) THEN [i |-> i, op |-> ""]
    ELSE IF op = "delete"
         THEN IF spec[i].Delete # "" THEN [i |-> i, op |-> "delete"]
              ELSE NextWork(spec, i, "apply")
         ELSE IF spec[i].Apply # "" THEN [i |-> i, op |-> "apply"]
              ELSE NextWork(spec, i + 1, "delete")

\* where the closure goes on after action i failed: `continue`
AfterFailure_Break(spec, i) == [i |-> Len(spec) + 1, op |-> ""]

AfterFailure(spec, i) == NextWork(spec, i + 1, "delete")

\* where the closure goes on after operation op of action i succeeded
AfterSuccess_NextAction(spec, i, op) == NextWork(spec, i + 1, "delete")

AfterSuccess(spec, i, op) ==
    IF op = "delete" THEN NextWork(spec, i, "apply")
    ELSE NextWork(spec, i + 1, "delete")

\* the closure leaves its loop over spec.Actions
Place(e, w) ==
    IF w.i > Len(e.spec)
    THEN [e EXCEPT !.i = w.i, !.op = "",
                   !.stage = IF DOMAIN e.errs # {} THEN "sendErrs" ELSE "sendNil"]
    ELSE [e EXCEPT !.i = w.i, !.op = w.op]

InitSync ==
    /\ callPc = [c \in Callers |-> "idle"]
    /\ ret = [c \in Callers |-> [nil |-> TRUE, errs |-> EmptySyncError]]
    /\ exec = [c \in Callers |-> NoExec]
    /\ loopIn = 0
    /\ applierLog = <<>>

\* Sync is called and blocks on `c.actionc <- func() {...}`
SyncCall(c) ==
    /\ OnlySync
    /\ callPc[c] = "idle"
    /\ callPc' = [callPc EXCEPT ![c] = "sending"]
    /\ UNCHANGED <<ret, exec, loopIn, applierLog>>

\* Cluster.loop takes a closure only between two closures: `f()` is a call
LoopReady_Spawns == TRUE

LoopReady == loopIn = 0

\* `for f := range c.actionc { f() }` receives the closure of caller c, whose
\* argument is spec; the caller goes on to `<-errc`.
LoopTakes(c) ==
    /\ OnlySync
    /\ callPc[c] = "sending"
    /\ LoopReady
    /\ \E spec \in SyncDefs :
          exec' = [exec EXCEPT ![c] =
                      Place([NoExec EXCEPT !.stage = "actions", !.spec = spec],
                            NextWork(spec, 1, "delete"))]
    /\ loopIn' = c
    /\ callPc' = [callPc EXCEPT ![c] = "receiving"]
    /\ UNCHANGED <<ret, applierLog>>

\* One Delete or Apply of the closure: definitionObj, then the applier.
ClosureStep(c) ==
    /\ OnlySync
    /\ exec[c].stage = "actions"
    /\ \E out \in OperationOutcomes :
          LET e == exec[c]
              a == e.spec[e.i]
              e2 == [e EXCEPT !.calls = Append(@, [i |-> e.i, op |-> e.op, err |-> out])]
          IN  /\ applierLog' = IF out = ParseError THEN applierLog
                               ELSE Append(applierLog, c)
              /\ exec' = [exec EXCEPT ![c] =
                    IF out = Nil
                    THEN Place(e2, AfterSuccess(e.spec, e.i, e.op))
                    ELSE Place([e2 EXCEPT !.errs = SetError(e.errs, a.ResourceID, out)],
                               AfterFailure(e.spec, e.i))]
    /\ UNCHANGED <<callPc, ret, loopIn>>

\* `errc <- errs` meets the caller's `return <-errc`; the closure goes on
\* to `errc <- nil`
SendErrs(c) ==
    /\ OnlySync
    /\ exec[c].stage = "sendErrs"
    /\ callPc[c] = "receiving"
    /\ ret' = [ret EXCEPT ![c] = [nil |-> FALSE, errs |-> exec[c].errs]]
    /\ callPc' = [callPc EXCEPT ![c] = "returned"]
    /\ exec' = [exec EXCEPT ![c].stage = "sendNil"]
    /\ UNCHANGED <<loopIn, applierLog>>

\* `errc <- nil` meets the caller's `return <-errc`; the closure returns
\* and Cluster.loop waits for the next one
SendNil(c) ==
    /\ OnlySync
    /\ exec[c].stage = "sendNil"
    /\ callPc[c] = "receiving"
    /\ ret' = [ret EXCEPT ![c] = [nil |-> TRUE, errs |-> EmptySyncError]]
    /\ callPc' = [callPc EXCEPT ![c] = "returned"]
    /\ exec' = [exec EXCEPT ![c] = EndedExec]
    /\ loopIn' = IF loopIn = c THEN 0 ELSE loopIn
    /\ UNCHANGED <<applierLog>>

NextSync ==
    \/ \E c \in Callers : SyncCall(c)
    \/ \E c \in Callers : LoopTakes(c)
    \/ \E c \in Callers : ClosureStep(c)
    \/ \E c \in Callers : SendErrs(c)
    \/ \E c \in Callers : SendNil(c)

(***************************************************************************)
(* Service identity and release results (package flux).                    *)
(***************************************************************************)
ServiceIDPool == <<<<"a", "x">>, <<"a", "y">>, <<"b", "x">>, <<"b", "y">>>>

\* flux.ServiceID: namespace and name
ServiceIDs == {ServiceIDPool[k] : k \in 1..NumServices}

ReleaseStatusPending == "pending"
ReleaseStatusSuccess == "success"
ReleaseStatusFailed == "failed"
ReleaseStatusSkipped == "skipped"
ReleaseStatusIgnored == "ignored"

ServiceResult(status, error) == [Status |-> status, Error |-> error]

\* an empty flux.ReleaseResult
EmptyResult == [s \in {} |-> ServiceResult("", "")]

(***************************************************************************)
(* The daemon facade: Daemon.UpdateImages and Daemon.logRelease.           *)
(***************************************************************************)
ReleaseSpecs == {[ServiceSpec |-> "<all>", ImageSpec |-> "<all latest>"],
                 [ServiceSpec |-> "a/x", ImageSpec |-> "r/i:2"]}

ReleaseError == PlainError(<<"release failed">>)

\* what release.Release may return: the per-service results and an error
ReleaseOutcomes ==
    {[results |-> EmptyResult, err |-> ReleaseError]}
    \cup {[results |-> [s \in {ServiceIDPool[1]} |-> ServiceResult(st, "")], err |-> e] :
             st \in {ReleaseStatusSuccess, ReleaseStatusFailed},
             e \in {Nil, ReleaseError}}

EventWriteError == PlainError(<<"history: write failed">>)

\* what d.LogEvent may return
LogEventOutcomes == {Nil, EventWriteError}

\* errors.Wrap(err, msg)
Wrap(err, m) == PlainError(<<m, ": ">> \o err.msg)

NoRelease == [StartedAt |-> 0, EndedAt |-> 0, Done |-> FALSE, Status |-> "",
              Spec |-> "", Result |-> EmptyResult]

\* the error logRelease returns, given the release's error and LogEvent's
logRelease_Swallow(executeErr, logErr) == executeErr

logRelease_LogFirst(executeErr, logErr) ==
    IF logErr # Nil THEN Wrap(logErr, "logging event") ELSE executeErr

logRelease(executeErr, logErr) ==
    IF logErr # Nil
    THEN IF executeErr = Nil THEN Wrap(logErr, "logging event") ELSE executeErr
    ELSE executeErr

\* the flux.Event logRelease hands to LogEvent
ReleaseEvent_InfoLevel(executeErr, release) ==
    [ServiceIDs |-> DOMAIN release.Result,
     Type |-> "release",
     StartedAt |-> release.StartedAt,
     EndedAt |-> release.EndedAt,
     LogLevel |-> "info",
     Metadata |-> [Release |-> release,
                   Error |-> IF executeErr # Nil THEN executeErr.msg ELSE <<>>]]

ReleaseEvent(executeErr, release) ==
    [ServiceIDs |-> DOMAIN release.Result,
     Type |-> "release",
     StartedAt |-> release.StartedAt,
     EndedAt |-> release.EndedAt,
     LogLevel |-> IF executeErr # Nil THEN "error" ELSE "info",
     Metadata |-> [Release |-> release,
                   Error |-> IF executeErr # Nil THEN executeErr.msg ELSE <<>>]]

InitDaemon ==
    /\ dPc = "idle"
    /\ dCalls = 0
    /\ clock = 1
    /\ dRelease = NoRelease
    /\ dExecErr = Nil
    /\ dLogErr = Nil
    /\ dRet = [results |-> EmptyResult, err |-> Nil]
    /\ events = <<>>
    /\ iPc = "idle"
    /\ iSpec = ""
    /\ iServices = <<>>
    /\ iClusterErr = Nil
    /\ iRet = [res |-> <<>>, err |-> Nil]

\* UpdateImages is called: started := time.Now(); release.Release runs
UpdateImages(spec) ==
    /\ OnlyDaemon
    /\ dPc \in {"idle", "returned"}
    /\ dCalls < MaxUpdates
    /\ dCalls' = dCalls + 1
    /\ dRelease' = [NoRelease EXCEPT !.StartedAt = clock, !.Spec = spec]
    /\ clock' = clock + 1
    /\ dExecErr' = Nil
    /\ dLogErr' = Nil
    /\ dPc' = "releasing"
    /\ UNCHANGED <<dRet, events>>
    /\ UNCHANGED listVars

\* release.Release returns; UpdateImages builds the flux.Release record
ReleaseReturns(out) ==
    /\ OnlyDaemon
    /\ dPc = "releasing"
    /\ dExecErr' = out.err
    /\ dRelease' = [dRelease EXCEPT
                       !.EndedAt = clock,
                       !.Done = TRUE,
                       !.Status = IF out.err # Nil THEN ReleaseStatusFailed
                                  ELSE ReleaseStatusSuccess,
                       !.Result = out.results]
    /\ clock' = clock + 1
    /\ dPc' = "logging"
    /\ UNCHANGED <<dCalls, dLogErr, dRet, events>>
    /\ UNCHANGED listVars

\* err = d.logRelease(err, release); return results, err
LogRelease(logErr) ==
    /\ OnlyDaemon
    /\ dPc = "logging"
    /\ dLogErr' = logErr
    /\ events' = Append(events, ReleaseEvent(dExecErr, dRelease))
    /\ dRet' = [results |-> dRelease.Result, err |-> logRelease(dExecErr, logErr)]
    /\ dPc' = "returned"
    /\ UNCHANGED <<dCalls, clock, dRelease, dExecErr>>
    /\ UNCHANGED listVars

(***************************************************************************)
(* The daemon facade: Daemon.ListImages.                                   *)
(***************************************************************************)
ServiceSpecAll == "<all>"

ServiceSpecs == {ServiceSpecAll, "default/web", "web"}

\* flux.ServiceSpec.AsID: a spec without a namespace is no service ID
AsID(spec) ==
    IF spec = "web" THEN PlainError(<<"invalid service ID">>) ELSE Nil

RunningServices ==
    {<<>>,
     <<[ID |-> "default/web", Containers |-> <<>>]>>,
     <<[ID |-> "default/web", Containers |-> <<"r/i:1">>]>>}

EnumerationError == PlainError(<<"getting namespaces">>)

\* what d.Cluster.AllServices and d.Cluster.SomeServices may return
EnumerationOutcomes ==
    {[services |-> <<>>, err |-> EnumerationError]}
    \cup {[services |-> svcs, err |-> Nil] : svcs \in RunningServices}

RegistryError == PlainError(<<"fetching image metadata">>)

\* release.CollectAvailableImages asks the registry only about the images
\* of the containers of the services
CollectOutcomes(services) ==
    IF \E k \in 1..Len(services) : services[k].Containers # <<>>
    THEN {Nil, RegistryError}
    ELSE {Nil}

ImageStatuses(services) ==
    [k \in 1..Len(services) |->
        [ID |-> services[k].ID, Containers |-> services[k].Containers]]

\* what ListImages returns once the images have been collected
ListImagesReturn_Checked(services, clusterErr, collectErr) ==
    IF clusterErr # Nil
    THEN [res |-> <<>>, err |-> clusterErr]
    ELSE IF collectErr # Nil
         THEN [res |-> <<>>, err |-> Wrap(collectErr, "getting images for services")]
         ELSE [res |-> ImageStatuses(services), err |-> Nil]

ListImagesReturn(services, clusterErr, collectErr) ==
    IF collectErr # Nil
    THEN [res |-> <<>>, err |-> Wrap(collectErr, "getting images for services")]
    ELSE [res |-> ImageStatuses(services), err |-> Nil]

\* ListImages is called with a spec that names all services or one
ListImagesCalled(spec) ==
    /\ OnlyDaemon
    /\ iPc \in {"idle", "returned"}
    /\ iSpec' = spec
    /\ iServices' = <<>>
    /\ iClusterErr' = Nil
    /\ IF spec # ServiceSpecAll /\ AsID(spec) # Nil
       THEN /\ iPc' = "returned"
            /\ iRet' = [res |-> <<>>,
                        err |-> Wrap(AsID(spec), "treating service spec as ID")]
       ELSE /\ iPc' = "enumerating"
            /\ iRet' = [res |-> <<>>, err |-> Nil]
    /\ UNCHANGED updateVars

\* services, err = d.Cluster.AllServices("") or d.Cluster.SomeServices(ids)
EnumerationReturns(out) ==
    /\ OnlyDaemon
    /\ iPc = "enumerating"
    /\ iServices' = out.services
    /\ iClusterErr' = out.err
    /\ iPc' = "collecting"
    /\ UNCHANGED <<iSpec, iRet>>
    /\ UNCHANGED updateVars

\* images, err := release.CollectAvailableImages(...), and the rest
ListImagesReturns ==
    /\ OnlyDaemon
    /\ iPc = "collecting"
    /\ \E collectErr \in CollectOutcomes(iServices) :
          iRet' = ListImagesReturn(iServices, iClusterErr, collectErr)
    /\ iPc' = "returned"
    /\ UNCHANGED <<iSpec, iServices, iClusterErr>>
    /\ UNCHANGED updateVars

NextDaemon ==
    \/ \E spec \in ReleaseSpecs : UpdateImages(spec)
    \/ \E out \in ReleaseOutcomes : ReleaseReturns(out)
    \/ \E logErr \in LogEventOutcomes : LogRelease(logErr)
    \/ \E spec \in ServiceSpecs : ListImagesCalled(spec)
    \/ \E out \in EnumerationOutcomes : EnumerationReturns(out)
    \/ ListImagesReturns

(***************************************************************************)
(* The release engine: ReleaseContext.SelectServices and                   *)
(* FindDefinedServices, with Cluster.SomeServices behind them.             *)
(***************************************************************************)
\* flux.ServiceID.Components
Namespace(id) == id[1]

Range(seq) == {seq[k] : k \in 1..Len(seq)}

\* the sequences that list every element of the set S once
Orderings(S) ==
    {q \in [1..Cardinality(S) -> S] : Range(q) = S}

\* a platform.Service as the cluster reports it; the zero value
Service(id) == [ID |-> id, Status |-> "ready"]

NoService == [ID |-> <<>>, Status |-> ""]

\* release.ServiceUpdate
ServiceUpdate(id) ==
    [ServiceID |-> id, ManifestPath |-> <<"repo">> \o id, Service |-> NoService]

\* `included`: nil, or a list of IDs (of which only the set matters)
Inclusions ==
    {[nil |-> TRUE, ids |-> {}]} \cup {[nil |-> FALSE, ids |-> S] : S \in SUBSET ServiceIDs}

\* what Cluster.FindDefinedServices may find: an entry for some services,
\* each with a list of files (of length 0, 1 or 2)
FileLookups ==
    {f \in [ServiceIDs -> -1..2] :
        Cardinality({s \in ServiceIDs : f[s] \in {0, 2}}) <= 1}

\* the results map a caller may pass to SelectServices: empty, or with an
\* entry written earlier
PriorResults ==
    {EmptyResult} \cup
    {[s \in {x} |-> ServiceResult(ReleaseStatusSkipped, "earlier")] : x \in ServiceIDs}

\* the lookup itself, or reading a manifest, fails
LookupError == PlainError(<<"reading manifests">>)

ClusterError == PlainError(<<"finding pod controllers for namespace">>)

MultipleFilesError(id) ==
    PlainError(<<"multiple resource files found for service ">> \o id)

InitRelease ==
    /\ rPc = "idle"
    /\ files = [s \in ServiceIDs |-> -1]
    /\ prior = EmptyResult
    /\ cluster = {}
    /\ included = [nil |-> TRUE, ids |-> {}]
    /\ locked = {}
    /\ excluded = {}
    /\ defined = <<>>
    /\ ids = <<>>
    /\ updateMap = [s \in {} |-> ServiceUpdate(s)]
    /\ results = EmptyResult
    /\ updates = <<>>
    /\ rErr = Nil

\* SelectServices is called on a working copy and a cluster
SelectServicesCalled ==
    /\ OnlyRelease
    /\ rPc = "idle"
    /\ files' \in FileLookups
    /\ cluster' \in SUBSET ServiceIDs
    /\ included' \in Inclusions
    /\ locked' \in SUBSET ServiceIDs
    /\ excluded' \in SUBSET ServiceIDs
    /\ prior' \in PriorResults
    /\ results' = prior'
    /\ rPc' = "called"
    /\ UNCHANGED <<defined, ids, updateMap, updates, rErr>>

\* `switch len(paths) { case 1: ...; default: return nil, fmt.Errorf(...) }`
IsDefinition_FirstFile(n) == n >= 1

IsDefinition(n) == n = 1

\* FindDefinedServices: one ServiceUpdate per service with exactly one file,
\* in the order the map of services is ranged over; an error otherwise
FindDefinedServices ==
    /\ OnlyRelease
    /\ rPc = "called"
    /\ LET found == {s \in ServiceIDs : files[s] # -1}
           bad == {s \in found : ~IsDefinition(files[s])}
       IN  \/ \* rc.Cluster.FindDefinedServices or ioutil.ReadFile fails
              /\ rErr' = LookupError
              /\ rPc' = "failed"
              /\ UNCHANGED defined
           \/ IF bad # {}
              THEN /\ \E s \in bad : rErr' = MultipleFilesError(s)
                   /\ rPc' = "failed"
                   /\ UNCHANGED defined
              ELSE /\ \E q \in Orderings(found) :
                         defined' = [k \in 1..Len(q) |-> ServiceUpdate(q[k])]
                   /\ rPc' = "defined"
                   /\ UNCHANGED rErr
    /\ UNCHANGED <<files, prior, cluster, included, locked, excluded, ids, updateMap,
                   results, updates>>

\* only == nil || only.Contains(s.ServiceID)
InScope_All(id) == TRUE

InScope(id) == included.nil \/ id \in included.ids

\* the result the first loop of SelectServices records for a service
InitialResult_LockedFirst(id) ==
    IF id \in locked THEN ServiceResult(ReleaseStatusSkipped, "locked")
    ELSE IF id \in excluded THEN ServiceResult(ReleaseStatusSkipped, "excluded")
    ELSE ServiceResult(ReleaseStatusPending, "")

InitialResult(id) ==
    IF id \in excluded THEN ServiceResult(ReleaseStatusSkipped, "excluded")
    ELSE IF id \in locked THEN ServiceResult(ReleaseStatusSkipped, "locked")
    ELSE ServiceResult(ReleaseStatusPending, "")

\* the services the first loop makes candidates: the `default` case
IsCandidate_All(id) == InScope(id)

IsCandidate(id) == InScope(id) /\ id \notin excluded /\ id \notin locked

\* `for _, s := range defined { ... }`
MarkServices ==
    /\ OnlyRelease
    /\ rPc = "defined"
    /\ LET definedIDs == [k \in 1..Len(defined) |-> defined[k].ServiceID]
           scope == {s \in Range(definedIDs) : InScope(s)}
           cand(s) == IsCandidate(s)
       IN  /\ results' = [s \in DOMAIN results \cup scope |->
                            IF s \in scope THEN InitialResult(s) ELSE results[s]]
           /\ ids' = SelectSeq(definedIDs, cand)
           /\ updateMap' = [s \in {x \in Range(definedIDs) : IsCandidate(x)} |->
                              ServiceUpdate(s)]
    /\ rPc' = "marked"
    /\ UNCHANGED <<files, prior, cluster, included, locked, excluded, defined, updates, rErr>>

\* the IDs of idseq that name a service of the cluster, namespace by
\* namespace in the order nsOrder
RECURSIVE ByNamespace(_, _)
ByNamespace(nsOrder, idseq) ==
    IF nsOrder = <<>> THEN <<>>
    ELSE SelectSeq(idseq, LAMBDA s : Namespace(s) = Head(nsOrder) /\ s \in cluster)
         \o ByNamespace(Tail(nsOrder), idseq)

\* Cluster.SomeServices(ids): the named services the cluster has, namespace
\* by namespace (in the order a map of namespaces is ranged over), and
\* within a namespace in the order of ids
SomeServices(idseq) ==
    LET nss == {Namespace(s) : s \in Range(idseq)}
    IN  {[k \in 1..Len(ByNamespace(q, idseq)) |-> Service(ByNamespace(q, idseq)[k])] :
            q \in Orderings(nss)}

\* the status of a candidate the cluster did not return
MissingStatus_Inverted ==
    IF ~included.nil THEN ReleaseStatusIgnored ELSE ReleaseStatusSkipped

MissingStatus ==
    IF ~included.nil THEN ReleaseStatusSkipped ELSE ReleaseStatusIgnored

\* the rest of SelectServices: correlate with the running system
Correlate ==
    /\ OnlyRelease
    /\ rPc = "marked"
    /\ \/ \* SomeServices fails: return nil, err
          /\ rErr' = ClusterError
          /\ rPc' = "failed"
          /\ UNCHANGED <<updateMap, results, updates>>
       \/ \E services \in SomeServices(ids) :
             LET returned == {services[k].ID : k \in 1..Len(services)}
                 left == DOMAIN updateMap \ returned
             IN  /\ updates' = [k \in 1..Len(services) |->
                                  [updateMap[services[k].ID] EXCEPT !.Service = services[k]]]
                 /\ updateMap' = [s \in left |-> updateMap[s]]
                 /\ results' = [s \in DOMAIN results \cup left |->
                                  IF s \in left
                                  THEN ServiceResult(MissingStatus, "not in running system")
                                  ELSE results[s]]
                 /\ rPc' = "done"
                 /\ UNCHANGED rErr
    /\ UNCHANGED <<files, prior, cluster, included, locked, excluded, defined, ids>>

NextRelease ==
    \/ SelectServicesCalled
    \/ FindDefinedServices
    \/ MarkServices
    \/ Correlate

(***************************************************************************)
(* The clients of the bus: the methods of natsPlatform, NATS.Ping and      *)
(* NATS.AwaitPresence.                                                     *)
(***************************************************************************)
\* nats.ErrTimeout, and another error of the transport
ErrTimeout == PlainError(<<"nats: timeout">>)

ErrConnectionClosed == PlainError(<<"nats: connection closed">>)

TransportErrors == {ErrTimeout, ErrConnectionClosed}

\* platform.UnavailableError(err)
UnavailableError(err) ==
    [nil |-> FALSE, fatal |-> FALSE, msg |-> err.msg, unavailable |-> TRUE]

IsUnavailable(err) == "unavailable" \in DOMAIN err

\* rpc.ServerError(msg)
ServerError(m) == PlainError(m)

\* the errors a handler may put in a response: nil, an error or a fatal
\* error with a message, and errors whose message is the empty string
HandlerErrors == RemoteOutcomes \cup {PlainError(<<>>), FatalError(<<>>)}

extractError(resp) ==
    IF resp.Error # <<>>
    THEN IF resp.Fatal THEN FatalError(resp.Error) ELSE ServerError(resp.Error)
    ELSE Nil

\* the bus-level ping, beside the methods of natsPlatform
busPing == "NATS.Ping"

ClientMethods ==
    {methodPing, "Version", "Export", "ListServices", "ListImages",
     "UpdateImages", methodSyncCluster, "SyncStatus", busPing}

\* NATS.Ping: err := n.enc.Request(...); if err == nil { err =
\* extractError(response.ErrorResponse) }; return err
NATSPing(t, resp) == IF t = Nil THEN extractError(resp) ELSE t

\* a method of natsPlatform: if err := r.conn.Request(...); err != nil {
\* if err == nats.ErrTimeout { err = platform.UnavailableError(err) };
\* return err }; return extractError(response.ErrorResponse)
PlatformRequest(t, resp) ==
    IF t # Nil
    THEN IF t = ErrTimeout THEN UnavailableError(t) ELSE t
    ELSE extractError(resp)

ClientResult(m, t, resp) ==
    IF m = busPing THEN NATSPing(t, resp) ELSE PlatformRequest(t, resp)

PresenceTimeoutError == UnavailableError(PlainError(<<"presence timeout">>))

\* `if err := n.Ping(instID); err == nil { return nil }`
PingSucceeded_Any(err) == TRUE

PingSucceeded(err) == err = Nil

InitClient ==
    /\ cPc = "idle"
    /\ cMethod = ""
    /\ cTransport = Nil
    /\ cHandlerErr = Nil
    /\ cRet = Nil
    /\ aPc = "idle"
    /\ aExpired = FALSE
    /\ aPings = <<>>
    /\ aRet = Nil

\* a client calls a method
ClientCall(m) ==
    /\ OnlyClient
    /\ cPc = "idle"
    /\ cMethod' = m
    /\ cPc' = "requesting"
    /\ UNCHANGED <<cTransport, cHandlerErr, cRet, aPc, aExpired, aPings, aRet>>

\* conn.Request returns: with a transport error t, or with the response of
\* the handler, which ended with error e
RequestReturns(t, e) ==
    /\ OnlyClient
    /\ cPc = "requesting"
    /\ t # Nil => e = Nil
    /\ cTransport' = t
    /\ cHandlerErr' = e
    /\ cRet' = ClientResult(cMethod, t, makeErrorResponse(e))
    /\ cPc' = "returned"
    /\ UNCHANGED <<cMethod, aPc, aExpired, aPings, aRet>>

\* AwaitPresence is called: the timer and the ticker start
AwaitPresence ==
    /\ OnlyClient
    /\ aPc = "idle"
    /\ aPc' = "waiting"
    /\ UNCHANGED <<cPc, cMethod, cTransport, cHandlerErr, cRet, aExpired, aPings, aRet>>

\* the deadline passes: the timer's channel becomes ready
DeadlinePasses ==
    /\ OnlyClient
    /\ aPc = "waiting"
    /\ ~aExpired
    /\ aExpired' = TRUE
    /\ UNCHANGED <<cPc, cMethod, cTransport, cHandlerErr, cRet, aPc, aPings, aRet>>

\* case <-attempts.C: one ping
Attempt(t, e) ==
    /\ OnlyClient
    /\ aPc = "waiting"
    /\ Len(aPings) < MaxAttempts
    /\ t # Nil => e = Nil
    /\ LET err == NATSPing(t, makeErrorResponse(e))
       IN  /\ aPings' = Append(aPings, err)
           /\ IF PingSucceeded(err)
              THEN aRet' = Nil /\ aPc' = "returned"
              ELSE UNCHANGED <<aRet, aPc>>
    /\ UNCHANGED <<cPc, cMethod, cTransport, cHandlerErr, cRet, aExpired>>

\* case <-timer
PresenceTimeout ==
    /\ OnlyClient
    /\ aPc = "waiting"
    /\ aExpired
    /\ aRet' = PresenceTimeoutError
    /\ aPc' = "returned"
    /\ UNCHANGED <<cPc, cMethod, cTransport, cHandlerErr, cRet, aExpired, aPings>>

(***************************************************************************)
(* Instance construction: MultitenantInstancer.Get.                        *)
(***************************************************************************)
\* what Get returns: whether it built an Instance, and the error
GetResult(inst, err) == [instance |-> inst, err |-> err]

\* the error DB.GetConfig returns for an instance without a readable config
ConfigError == PlainError(<<"config not found">>)

\* NATS.Connect(instID): builds a natsPlatform for the instance; it sends
\* nothing on the bus and returns no error, whoever is subscribed
Connect(present) == Nil

InitInstance ==
    /\ gPc = "idle"
    /\ gConfigOK = FALSE
    /\ gPresent = FALSE
    /\ gRet = GetResult(FALSE, Nil)

\* Get(instanceID) is called for an instance whose config is readable or
\* not, and whose daemon is subscribed on the bus or not
GetCalled(configOK, present) ==
    /\ OnlyInstance
    /\ gPc = "idle"
    /\ gConfigOK' = configOK
    /\ gPresent' = present
    /\ gPc' = "GetConfig"
    /\ UNCHANGED gRet

\* c, err := m.DB.GetConfig(instanceID)
GetConfig ==
    /\ OnlyInstance
    /\ gPc = "GetConfig"
    /\ IF gConfigOK
       THEN gPc' = "Connect" /\ UNCHANGED gRet
       ELSE /\ gRet' = GetResult(FALSE, Wrap(ConfigError, "getting instance config from DB"))
            /\ gPc' = "returned"
    /\ UNCHANGED <<gConfigOK, gPresent>>

\* platform, err := m.Connecter.Connect(instanceID), and the rest of Get
GetConnect ==
    /\ OnlyInstance
    /\ gPc = "Connect"
    /\ LET err == Connect(gPresent)
       IN  gRet' = IF err # Nil
                   THEN GetResult(FALSE, Wrap(err, "connecting to platform"))
                   ELSE GetResult(TRUE, Nil)
    /\ gPc' = "returned"
    /\ UNCHANGED <<gConfigOK, gPresent>>

\* the caller is done with what Get returned
GetDone ==
    /\ OnlyInstance
    /\ gPc = "returned"
    /\ gPc' = "idle"
    /\ gRet' = GetResult(FALSE, Nil)
    /\ UNCHANGED <<gConfigOK, gPresent>>

NextClient ==
    \/ \E m \in ClientMethods : ClientCall(m)
    \/ \E t \in TransportErrors \cup {Nil} : \E e \in HandlerErrors : RequestReturns(t, e)
    \/ AwaitPresence
    \/ DeadlinePasses
    \/ \E t \in TransportErrors \cup {Nil} : \E e \in HandlerErrors : Attempt(t, e)
    \/ PresenceTimeout
    \/ \E configOK \in BOOLEAN : \E present \in BOOLEAN : GetCalled(configOK, present)
    \/ GetConfig
    \/ GetConnect
    \/ GetDone

(***************************************************************************)
(* Properties of the bus.                                                  *)
(***************************************************************************)
\* the processRequest task of s for the kick of subscriber k has ended
KickHandled(s, k) ==
    \E h \in handlers[s] : h.m = KickMsg(myID(k)) /\ h.st = "done"

\* the kick of subscriber k has been delivered on the channel of s
KickDelivered(s, k) ==
    \/ KickMsg(myID(k)) \in Range(requests[s])
    \/ \E h \in handlers[s] : h.m = KickMsg(myID(k))

\* s is still subscribed and its loop has not left for the tear-down
NonFatal(s) == subscribed[s] /\ pc[s] # "teardown"

\* Subscribe of s has published its kick
Published(s) == pc[s] \in {"loop", "select", "teardown", "returned"}

\* C1: handover.  Once the handler task of S1 for the kick of another
\* subscriber S2 has ended, the request loop of S1 has left its select for
\* the tear-down; when it has returned, S1 is unsubscribed and exactly one
\* value was sent on done, and if that kick's error was the one accepted,
\* the value is "Kicked by new subscriber <S2 id>".
C1_Handover ==
    \A s1, s2 \in Subs :
        (s1 # s2 /\ KickHandled(s1, s2)) =>
            /\ pc[s1] \in {"teardown", "returned"}
            /\ pc[s1] = "returned" =>
                  /\ ~subscribed[s1]
                  /\ Len(done[s1]) = 1
                  /\ (\E h \in handlers[s1] : h.m = KickMsg(myID(s2)) /\ h.accepted)
                        => done[s1] = <<KickedBy(myID(s2))>>

\* C2 as stated: in every reachable state at most one subscription is
\* non-fatal (still subscribed, not kicked).
C2_AtMostOneNonFatal ==
    \A s1, s2 \in Subs : (NonFatal(s1) /\ NonFatal(s2)) => s1 = s2

\* C2 amended: of any two non-fatal subscriptions whose Subscribe calls have
\* both published their kick, at least one has had the other's kick
\* delivered to it; so at most one such subscription has not been sent a
\* kick by a different subscriber.
C2_AtMostOneUnkicked ==
    \A s1, s2 \in Subs :
        (s1 # s2 /\ NonFatal(s1) /\ NonFatal(s2) /\ Published(s1) /\ Published(s2))
            => (KickDelivered(s1, s2) \/ KickDelivered(s2, s1))

\* two subscriptions are non-fatal at once, the kick of the newer one
\* waiting on the channel of the older one
C2_Witness ==
    \E s1, s2 \in Subs :
        /\ s1 # s2 /\ NonFatal(s1) /\ NonFatal(s2)
        /\ Published(s1) /\ Published(s2)
        /\ KickDelivered(s1, s2) /\ ~KickDelivered(s2, s1)

(***************************************************************************)
(* Properties of Sync.                                                     *)
(***************************************************************************)
\* C3: serialisation.  The applier calls of one batch are contiguous in the
\* order of all applier calls, and at most one closure is inside its loop
\* over the actions at any time.
C3_Serialised ==
    /\ \A i, j, k \in 1..Len(applierLog) :
          (i < j /\ j < k /\ applierLog[i] = applierLog[k])
              => applierLog[j] = applierLog[i]
    /\ Cardinality({c \in Callers : exec[c].stage = "actions"}) <= 1

\* two batches have run, the first with two applier calls
C3_Witness ==
    /\ Len(applierLog) >= 3
    /\ applierLog[1] = applierLog[2]
    /\ applierLog[3] # applierLog[1]

\* C4: one reply per submission, after which the consumer goes on.
\* Whenever a closure is at a send on errc, its caller is still at the
\* receive: no reply is left that nobody takes, so the closure returns and
\* Cluster.loop dequeues the next submission.
C4_ConsumerGoesOn ==
    \A c \in Callers :
        exec[c].stage \in {"sendErrs", "sendNil"} => callPc[c] = "receiving"

\* the operation op of action k of the batch of caller c was tried / failed
OpTried(c, k, op) ==
    \E n \in 1..Len(exec[c].calls) :
        exec[c].calls[n].i = k /\ exec[c].calls[n].op = op

OpFailed(c, k, op) ==
    \E n \in 1..Len(exec[c].calls) :
        /\ exec[c].calls[n].i = k /\ exec[c].calls[n].op = op
        /\ exec[c].calls[n].err # Nil

\* action k of the batch of caller c failed: one of its operations did
ActionFailed(c, k) == OpFailed(c, k, "delete") \/ OpFailed(c, k, "apply")

\* Action k of the batch of caller c was attempted: its Delete was tried if
\* it has one, and its Apply if it has one and the Delete did not fail.
ActionAttempted(c, k) ==
    LET a == exec[c].spec[k]
    IN  /\ a.Delete # "" => OpTried(c, k, "delete")
        /\ (a.Apply # "" /\ ~OpFailed(c, k, "delete")) => OpTried(c, k, "apply")
        /\ a.Delete = "" => ~OpTried(c, k, "delete")
        /\ a.Apply = "" => ~OpTried(c, k, "apply")

\* the actions of the batch of caller c that failed
FailedActions(c) == {k \in 1..Len(exec[c].spec) : ActionFailed(c, k)}

\* C5: partial failure.  When the closure has left its loop, every action
\* of the batch was attempted and the SyncError has an entry for exactly
\* the ResourceIDs of the failed actions, each a non-nil error; and the
\* value Sync returns is nil exactly when no action failed, and that
\* SyncError otherwise.
C5_PartialFailure ==
    /\ [](\A c \in Callers :
            exec[c].stage \in {"sendErrs", "sendNil"} =>
                /\ \A k \in 1..Len(exec[c].spec) : ActionAttempted(c, k)
                /\ DOMAIN exec[c].errs =
                      {exec[c].spec[k].ResourceID : k \in FailedActions(c)}
                /\ \A r \in DOMAIN exec[c].errs : exec[c].errs[r] # Nil)
    /\ [][\A c \in Callers :
            (callPc[c] = "receiving" /\ callPc'[c] = "returned") =>
                /\ ret'[c].nil <=> FailedActions(c) = {}
                /\ ~ret'[c].nil => ret'[c].errs = exec[c].errs]_vars

\* a batch whose first action failed and whose second was applied has
\* returned a SyncError with one entry
C5_Witness ==
    \E c \in Callers :
        /\ callPc[c] = "returned"
        /\ Len(exec[c].spec) = 2
        /\ exec[c].spec[1].ResourceID # exec[c].spec[2].ResourceID
        /\ ActionFailed(c, 1)
        /\ ~ActionFailed(c, 2)
        /\ \E n \in 1..Len(exec[c].calls) :
              exec[c].calls[n].i = 2 /\ exec[c].calls[n].err = Nil
        /\ ~ret[c].nil
        /\ DOMAIN ret[c].errs = {exec[c].spec[1].ResourceID}

\* the closure of caller c has its locals
Running(c) == exec[c].stage \in {"actions", "sendErrs", "sendNil"}

\* the operations of action i the closure has performed, in order
CallsOf(e, i) == SelectSeq(e.calls, LAMBDA call : call.i = i)

\* the operations the closure performs for action i, given how they end
DueCalls(e, i) ==
    LET a == e.spec[i]
        made == CallsOf(e, i)
    IN  IF a.Delete # ""
        THEN IF a.Apply # "" /\ made # <<>> /\ made[1].err = Nil
             THEN <<"delete", "apply">>
             ELSE <<"delete">>
        ELSE IF a.Apply # "" THEN <<"apply">> ELSE <<>>

\* the failed operations on resource id
FailuresOf(e, id) ==
    SelectSeq(e.calls, LAMBDA call : call.err # Nil /\ e.spec[call.i].ResourceID = id)

\* C39: Sync action order.  The closure goes through the actions in batch
\* order; for an action with a Delete and an Apply manifest the delete is
\* performed before the apply, and the apply is not attempted when the
\* delete or the parsing of its manifest fails; the error is recorded
\* under the action's ResourceID, and the batch goes on with the next
\* action.
C39_ActionOrder ==
    \A c \in Callers :
        Running(c) =>
            LET e == exec[c]
                passed == IF e.stage = "actions" THEN e.i - 1 ELSE Len(e.spec)
            IN  /\ \A k \in 1..(Len(e.calls) - 1) : e.calls[k].i <= e.calls[k + 1].i
                /\ \A i \in 1..passed :
                      [k \in 1..Len(CallsOf(e, i)) |-> CallsOf(e, i)[k].op] = DueCalls(e, i)
                /\ \A id \in ResourceIDs :
                      /\ id \in DOMAIN e.errs <=> FailuresOf(e, id) # <<>>
                      /\ id \in DOMAIN e.errs =>
                            e.errs[id] = FailuresOf(e, id)[Len(FailuresOf(e, id))].err

\* the delete of the first action failed, its apply was left out, and the
\* second action was deleted and applied
C39_Witness ==
    \E c \in Callers :
        /\ exec[c].stage = "sendErrs"
        /\ Len(exec[c].spec) = 2
        /\ exec[c].spec[1].Delete # "" /\ exec[c].spec[1].Apply # ""
        /\ [k \in 1..Len(exec[c].calls) |-> <<exec[c].calls[k].i, exec[c].calls[k].op>>]
              = <<<<1, "delete">>, <<2, "delete">>, <<2, "apply">>>>
        /\ exec[c].calls[1].err # Nil
        /\ DOMAIN exec[c].errs = {exec[c].spec[1].ResourceID}

C7_ReleaseErrorReturned ==
    (dPc = "returned" /\ dExecErr # Nil) => dRet.err = dExecErr

C7_Witness ==
    /\ dPc = "returned" /\ dExecErr # Nil /\ dLogErr # Nil
    /\ dRelease.Status = ReleaseStatusFailed

C40_ClusterErrorReturned ==
    (iPc = "returned" /\ iClusterErr # Nil) => iRet.err # Nil

(***************************************************************************)
(* Properties of the release engine's selection.                           *)
(***************************************************************************)
\* the services with a manifest in the working copy that are in scope
DefinedInScope == {s \in ServiceIDs : files[s] = 1 /\ InScope(s)}

\* C8: initial status.  After the first loop, every defined service in
\* scope is recorded skipped "excluded" if it is excluded (locked or not),
\* otherwise skipped "locked" if it is locked, otherwise pending, and
\* exactly the pending ones are candidates.
C8_InitialStatus ==
    rPc = "marked" =>
        \A s \in DefinedInScope :
            /\ s \in DOMAIN results
            /\ s \in excluded =>
                  results[s] = ServiceResult(ReleaseStatusSkipped, "excluded")
            /\ (s \notin excluded /\ s \in locked) =>
                  results[s] = ServiceResult(ReleaseStatusSkipped, "locked")
            /\ (s \notin excluded /\ s \notin locked) =>
                  results[s] = ServiceResult(ReleaseStatusPending, "")
            /\ (s \in Range(ids)) <=> (s \notin excluded /\ s \notin locked)
            /\ (s \in DOMAIN updateMap) <=> (s \in Range(ids))

\* one service in scope is both excluded and locked, another is a candidate
C8_Witness ==
    /\ rPc = "marked"
    /\ \E s \in DefinedInScope : s \in excluded /\ s \in locked
    /\ \E s \in DefinedInScope : s \in Range(ids)

\* C9: candidates and the running system.  After SelectServices returns,
\* every candidate the cluster did not return has error "not in running
\* system", with status skipped if a list was given and ignored if not;
\* every candidate the cluster returned is in the updates, once, with its
\* observed Service attached.
C9_NotRunning ==
    rPc = "done" =>
        \A s \in Range(ids) :
            /\ s \notin cluster =>
                  /\ results[s] = ServiceResult(
                        IF included.nil THEN ReleaseStatusIgnored
                        ELSE ReleaseStatusSkipped, "not in running system")
                  /\ \A k \in 1..Len(updates) : updates[k].ServiceID # s
            /\ s \in cluster =>
                  /\ Cardinality({k \in 1..Len(updates) : updates[k].ServiceID = s}) = 1
                  /\ \A k \in 1..Len(updates) :
                        updates[k].ServiceID = s => updates[k].Service = Service(s)

\* a list was given; one candidate is running and one is not
C9_Witness ==
    /\ rPc = "done"
    /\ ~included.nil
    /\ \E s \in Range(ids) : s \notin cluster
    /\ \E s \in Range(ids) : s \in cluster

\* C10 as stated: the keys of the result are the selected services and no
\* key is excluded or locked.
C10_KeysDisjoint ==
    (rPc = "done" /\ prior = EmptyResult) =>
        /\ DOMAIN results = DefinedInScope
        /\ DOMAIN results \cap (excluded \cup locked) = {}

\* C10 amended: the keys of the result are the defined services in scope,
\* the excluded and locked ones among them included, recorded as skipped;
\* it is the candidates, and with them the returned updates and the keys
\* that are not skipped as excluded or locked, that are disjoint from the
\* excluded and locked sets.
C10_KeysInScope ==
    rPc = "done" =>
        /\ DOMAIN results = DOMAIN prior \cup DefinedInScope
        /\ Range(ids) \cap (excluded \cup locked) = {}
        /\ {updates[k].ServiceID : k \in 1..Len(updates)} \cap (excluded \cup locked) = {}
        /\ \A s \in DefinedInScope :
              s \in (excluded \cup locked) <=>
                  results[s] \in {ServiceResult(ReleaseStatusSkipped, "excluded"),
                                  ServiceResult(ReleaseStatusSkipped, "locked")}

\* an excluded service in scope is a key of the result, beside an update
C10_Witness ==
    /\ rPc = "done"
    /\ \E s \in DOMAIN results : s \in excluded
    /\ Len(updates) >= 1

\* C11: explicit accounting.  When a list of services was given and
\* SelectServices has returned successfully, every service of the list is a
\* key of the results, and a listed candidate that the cluster does not run
\* is recorded skipped.
C11_ExplicitAccounting ==
    (rPc = "done" /\ ~included.nil) =>
        \A s \in included.ids :
            /\ s \in DOMAIN results
            /\ (s \in Range(ids) /\ s \notin cluster) =>
                  results[s].Status = ReleaseStatusSkipped

\* the position of a ServiceID in the order of ServiceIDs (namespace, then
\* name)
IdRank(id) == CHOOSE k \in 1..Len(ServiceIDPool) : ServiceIDPool[k] = id

\* C12: order.  The updates SelectServices returns are sorted by ServiceID.
C12_UpdatesSorted ==
    rPc = "done" =>
        \A j, k \in 1..Len(updates) :
            j < k => IdRank(updates[j].ServiceID) < IdRank(updates[k].ServiceID)

(***************************************************************************)
(* More properties of the bus.                                             *)
(***************************************************************************)
\* a processRequest task of s has ended with a fatal error while the
\* subscription was active: the loop took the error, or it is still running
FatalEnded(s) ==
    \E h \in handlers[s] :
        /\ h.st = "done" /\ h.err.fatal
        /\ h.accepted \/ (subscribed[s] /\ pc[s] \in {"loop", "select"})

\* s is unsubscribed and a fatal error was sent on its done channel
DoneFatal(s) ==
    /\ ~subscribed[s]
    /\ \E k \in 1..Len(done[s]) : done[s][k].fatal

\* C13: fatal-error propagation.  Whenever a request handler of an active
\* subscription has ended with a fatal error, the subscription is eventually
\* unsubscribed with a fatal error on its done channel.
C13_FatalPropagates ==
    \A s \in Subs : FatalEnded(s) ~> DoneFatal(s)

\* the processRequest tasks of s whose fatal error the loop took from errc
Accepted(s) == {h \in handlers[s] : h.accepted}

\* C14: first fatal error wins.  The loop takes at most one error from errc;
\* once it has, the value sent on done is that error and no other, every
\* other fatal error of a handler task is dropped, and a handler task can
\* always take its last step: the send on errc never blocks, whether the
\* loop is running, tearing down or gone.
C14_FirstFatalWins ==
    \A s \in Subs :
        /\ Cardinality(Accepted(s)) <= 1
        /\ \A h \in Accepted(s) :
              /\ h.err.fatal
              /\ pc[s] \in {"teardown", "returned"}
              /\ loopErr[s] = h.err
              /\ pc[s] = "returned" => done[s] = <<h.err>>
        /\ \A k \in 1..Len(done[s]) :
              done[s][k].fatal => \E h \in Accepted(s) : h.err = done[s][k]
        /\ \A h \in handlers[s] :
              /\ (h.st = "run" /\ h.m.subject = methodKick) => ENABLED HandleKick(s, h)
              /\ h.st = "replied" => ENABLED HandlerEnds(s, h)

\* two handler tasks of one subscription ended with fatal errors, the
\* second after the loop had taken the first, and done holds the first
C14_Witness ==
    \E s \in Subs :
        /\ pc[s] = "returned"
        /\ \E h1, h2 \in handlers[s] :
              /\ h1.accepted /\ h1.st = "done"
              /\ ~h2.accepted /\ h2.st = "done" /\ h2.err.fatal
              /\ h1.err # h2.err
              /\ done[s] = <<h1.err>>

\* the maximum-age timer of s has fired: the loop left its select with no
\* error
TimerFired(s) == pc[s] = "teardown" /\ loopErr[s] = Nil

\* the requests s has dispatched
Dispatched(s) == {h.m : h \in handlers[s]}

\* C16: connection ageing.  When the maximum-age timer of a subscription
\* fires, the subscription is eventually unsubscribed with nil, and nothing
\* else, on its done channel; and from the moment the loop has left its
\* select it dispatches no further request.
C16_Ageing ==
    /\ \A s \in Subs :
          TimerFired(s) ~> (pc[s] = "returned" /\ ~subscribed[s] /\ done[s] = <<Nil>>)
    /\ [](\A s \in Subs :
            (pc[s] = "returned" /\ loopErr[s] = Nil) =>
                (~subscribed[s] /\ done[s] = <<Nil>> /\ requests[s] = <<>>))
    /\ [][\A s \in Subs :
            pc[s] \in {"teardown", "returned"} => Dispatched(s)' = Dispatched(s)]_vars

\* a subscription that had dispatched a request aged out while another
\* one was subscribed
C16_Witness ==
    \E s \in Subs :
        /\ pc[s] = "returned" /\ loopErr[s] = Nil
        /\ done[s] = <<Nil>>
        /\ Dispatched(s) # {}
        /\ \E t \in Subs : t # s /\ subscribed[t]

\* the subscription s was torn down by the kick of another subscriber
KickedOut(s) ==
    /\ pc[s] \in {"teardown", "returned"}
    /\ \E k \in Subs : k # s /\ loopErr[s] = KickedBy(myID(k))

\* C19: handover, in-flight request.  A response that a handler task of S1
\* publishes after S1 was kicked out by a new subscriber carries a fatal
\* error.
C19_InFlightFatal ==
    [][\A r \in replies' \ replies : KickedOut(r.from) => r.resp.Fatal]_vars

\* a SyncCluster handler of s is running
SlowRunning(s) ==
    \E h \in handlers[s] : h.m.subject = methodSyncCluster /\ h.st = "run"

\* the ping with reply subject rid waits on the channel of s or in a handler
\* that has not answered yet
PingPending(s, rid) ==
    \/ PingMsg(rid) \in Range(requests[s])
    \/ \E h \in handlers[s] : h.m = PingMsg(rid) /\ h.st = "run"

\* C15: no head-of-line blocking.  A ping delivered to a subscription while
\* a SyncCluster handler is running is answered, unless the subscription
\* is torn down first, also if the slow handler never finishes.
C15_NoHeadOfLine ==
    \A s \in Serving : \A rid \in 1..(MaxRequests + MaxSlow) :
        (subscribed[s] /\ SlowRunning(s) /\ PingPending(s, rid))
            ~> \/ \E r \in replies : r.rid = rid /\ r.from = s
               \/ pc[s] \in {"teardown", "returned"}

\* a ping published after a SyncCluster request has been answered while the
\* SyncCluster handler is still running
C15_Witness ==
    \E s \in Serving : \E h \in handlers[s] : \E r \in replies :
        /\ h.m.subject = methodSyncCluster /\ h.st = "run"
        /\ r.from = s /\ r.rid > h.m.reply
        /\ \E g \in handlers[s] : g.m = PingMsg(r.rid)

(***************************************************************************)
(* Properties of the replies.                                              *)
(***************************************************************************)
\* the responses subscriber s published on the reply subject of message m
RepliesTo(s, m) == {r \in replies : r.from = s /\ r.rid = m.reply}

\* a request with a known method other than the kick is answered once, and
\* with the decode error, the remote uncalled, when its payload is malformed
AnsweredOnce(s, h) ==
    (h.m.subject \in KnownMethods \ {methodKick}) =>
        /\ h.st = "run" => RepliesTo(s, h.m) = {}
        /\ h.st # "run" => Cardinality(RepliesTo(s, h.m)) = 1
        /\ (h.st # "run" /\ h.m.data = Malformed) =>
              /\ ~h.remote
              /\ \A r \in RepliesTo(s, h.m) : r.resp = makeErrorResponse(DecodeError)
        /\ (h.st # "run" /\ h.m.data # Malformed) => h.remote

KicksProcessed ==
    \A s \in Subs :
        /\ Published(s)
        /\ pc[s] # "teardown"
        /\ \A k \in Subs : KickMsg(myID(k)) \notin Range(requests[s])
        /\ \A h \in handlers[s] : h.m.subject = methodKick => h.st = "done"

\* no subscription ended for another reason than a kick
OnlyKicked ==
    \A s \in Subs :
        pc[s] = "returned" => \E k \in Subs : done[s] = <<KickedBy(myID(k))>>

\* C36: concurrent subscribers do not evict each other.  When the daemons
\* have subscribed for the same instance at nearly the same time and all
\* kick messages have been processed, exactly one of the subscriptions is
\* still active.
C36_OneSurvivor ==
    (KicksProcessed /\ OnlyKicked) => Cardinality({s \in Subs : subscribed[s]}) = 1

\* after all kicks, at least one subscription is still active
C36_SomeSurvivor ==
    (KicksProcessed /\ OnlyKicked) => \E s \in Subs : subscribed[s]

\* the value on done is the one the call of s ends with
DoneValue(s) ==
    /\ Len(done[s]) <= 1
    /\ done[s] # <<>> <=> pc[s] \in {"failed", "returned"}
    /\ pc[s] = "failed" =>
          /\ done[s] = <<SubscribeError>>
          /\ ~subscribed[s]
          /\ handlers[s] = {}
          /\ \A t \in Subs : ~KickDelivered(t, s)
    /\ pc[s] = "returned" =>
          /\ Accepted(s) = {} => done[s] = <<Nil>>
          /\ \A h \in Accepted(s) : h.err.fatal /\ done[s] = <<h.err>>

\* C37: exactly one completion signal.  At most one value is ever sent on
\* the done channel of a Subscribe call, and it is sent when the call
\* ends: the subscribe error if the transport subscription fails, with no
\* kick published and no request loop started; otherwise the fatal error
\* the loop accepted, or nil when the age timer fired.  Once the value is
\* sent the subscription dispatches no further request and sends nothing
\* more.
C37_OneCompletion ==
    /\ [](\A s \in Subs : DoneValue(s))
    /\ [][\A s \in Subs :
            done[s] # <<>> =>
                /\ done'[s] = done[s]
                /\ {h.m : h \in handlers'[s]} = {h.m : h \in handlers[s]}]_vars

\* one call ended on a fatal error of a handler, another on the failure to
\* subscribe
C37_Witness ==
    \E s, t \in Subs :
        /\ pc[s] = "returned" /\ done[s] # <<>> /\ done[s][1].fatal
        /\ pc[t] = "failed" /\ done[t] = <<SubscribeError>>

\* a call ended because the age timer fired
C37_TimerWitness ==
    \E s \in Subs : pc[s] = "returned" /\ done[s] = <<Nil>> /\ handlers[s] # {}

(***************************************************************************)
(* Properties of the clients of the bus.                                   *)
(***************************************************************************)
\* C17: request timeouts.  Whatever the method, a client-side request whose
\* transport timed out returns an unavailable error, and one whose transport
\* failed otherwise returns the transport's error unchanged.
C17_TimeoutUnavailable ==
    cPc = "returned" =>
        /\ cTransport = ErrTimeout => IsUnavailable(cRet)
        /\ cTransport \in TransportErrors \ {ErrTimeout} => cRet = cTransport

\* C18: presence.  AwaitPresence returns nil only when its last ping
\* succeeded; it returns the unavailable error "presence timeout" only when
\* the deadline has passed and no ping succeeded; it returns nothing else;
\* and once the deadline has passed it does return.
C18_Presence ==
    /\ [](aPc = "returned" =>
            \/ /\ aRet = Nil
               /\ aPings # <<>>
               /\ aPings[Len(aPings)] = Nil
            \/ /\ aRet = PresenceTimeoutError
               /\ IsUnavailable(aRet)
               /\ aExpired
               /\ \A k \in 1..Len(aPings) : aPings[k] # Nil)
    /\ (aPc = "waiting" /\ aExpired) ~> (aPc = "returned")

\* AwaitPresence returned unavailable after a ping that timed out and a
\* ping the daemon answered with an error
C18_Witness ==
    /\ aPc = "returned"
    /\ aRet = PresenceTimeoutError
    /\ Len(aPings) = 2
    /\ aPings[1] = ErrTimeout
    /\ aPings[2].fatal

\* C20: error envelope round trip.  The error a client reconstructs from the
\* response to a handler error e is nil exactly when e is nil, a FatalError
\* exactly when e is one, and has the message of e.
C20_RoundTrip ==
    (cPc = "returned" /\ cTransport = Nil) =>
        /\ cRet = extractError(makeErrorResponse(cHandlerErr))
        /\ cRet.nil <=> cHandlerErr.nil
        /\ cRet.fatal <=> cHandlerErr.fatal
        /\ cRet.msg = cHandlerErr.msg

\* C30: a subscriber never evicts itself.  The handler step that processes
\* the subscription's own kick message ends with no error, leaves the kick
\* counter and the loop where they are, and the subscription stays
\* subscribed.
C30_NoSelfEviction ==
    [][\A s \in Subs : \A h \in handlers[s] :
          (/\ h.m = KickMsg(myID(s))
           /\ h.st = "run"
           /\ [h EXCEPT !.st = "done"] \in
                 {[g EXCEPT !.err = Nil, !.accepted = FALSE] : g \in handlers'[s]})
          => /\ [h EXCEPT !.st = "done"] \in handlers'[s]
             /\ kicks' = kicks
             /\ pc'[s] = pc[s]
             /\ loopErr'[s] = loopErr[s]
             /\ subscribed'[s] = subscribed[s]
             /\ done'[s] = done[s]]_vars

\* a subscription has processed its own kick while waiting in its select,
\* and is still waiting there, subscribed, with nobody kicked
C30_Witness ==
    \E s \in Subs :
        /\ KickHandled(s, s)
        /\ pc[s] = "select"
        /\ subscribed[s]
        /\ kicks = 0
        /\ done[s] = <<>>

\* the services whose entry in the lookup does not have exactly one file
BadEntries == {s \in ServiceIDs : files[s] \notin {-1, 1}}

\* C24: duplicate manifests.  If the lookup has an entry with a number of
\* files other than one, SelectServices ends with the error of
\* FindDefinedServices, returns no updates and leaves the results map as it
\* was passed.
C24_DuplicatesFatal ==
    (rPc \in {"failed", "done"} /\ BadEntries # {}) =>
        /\ rPc = "failed"
        /\ rErr # Nil
        /\ rErr \in {LookupError} \cup {MultipleFilesError(s) : s \in BadEntries}
        /\ updates = <<>>
        /\ results = prior

\* two files were found for one service, beside a proper entry for another,
\* and the results map had an entry when it was passed
C24_Witness ==
    /\ rPc = "failed"
    /\ \E s \in ServiceIDs : files[s] = 2 /\ rErr = MultipleFilesError(s)
    /\ \E s \in ServiceIDs : files[s] = 1
    /\ prior # EmptyResult

\* C31: selection scope frame.  When a list of services was given, a
\* defined service that is not in the list has a result entry only if it
\* had one when the map was passed, and that entry is as it was.
C31_ScopeFrame ==
    (rPc \in {"marked", "done"} /\ ~included.nil) =>
        \A s \in ServiceIDs :
            (files[s] = 1 /\ s \notin included.ids) =>
                /\ s \in DOMAIN results <=> s \in DOMAIN prior
                /\ s \in DOMAIN prior => results[s] = prior[s]

\* SelectServices returned updates for a list that leaves out a defined
\* service, for which the map had an entry
C31_Witness ==
    /\ rPc = "done" /\ ~included.nil
    /\ Len(updates) >= 1
    /\ \E s \in ServiceIDs :
          /\ files[s] = 1 /\ s \notin included.ids
          /\ s \in DOMAIN prior /\ results[s] = prior[s]

\* the IDs of the returned updates
UpdatedIDs == {updates[k].ServiceID : k \in 1..Len(updates)}

\* C38: pending means updateable.  After SelectServices has returned
\* successfully, an entry it wrote is pending exactly when its service is in
\* the returned updates, every other entry it wrote is skipped or ignored
\* with an error text, and the updates are candidates, each ID once.
C38_PendingUpdateable ==
    rPc = "done" =>
        /\ \A s \in DefinedInScope :
              /\ results[s].Status = ReleaseStatusPending <=> s \in UpdatedIDs
              /\ s \notin UpdatedIDs =>
                    /\ results[s].Status \in {ReleaseStatusSkipped, ReleaseStatusIgnored}
                    /\ results[s].Error # ""
        /\ \A s \in UpdatedIDs :
              s \in DefinedInScope /\ s \notin excluded /\ s \notin locked
        /\ \A j, k \in 1..Len(updates) :
              updates[j].ServiceID = updates[k].ServiceID => j = k

\* one candidate is updated and another is not running
C38_Witness ==
    /\ rPc = "done"
    /\ Len(updates) = 1
    /\ \E s \in DefinedInScope : results[s].Error = "not in running system"

(***************************************************************************)
(* Properties of instance construction.                                   *)
(***************************************************************************)
\* C26: instance construction.  Get fails with a config error when the
\* instance's config cannot be read, fails with platform-unavailable when
\* the config can be read and no daemon is subscribed for the instance, and
\* returns an Instance only when the config is readable and a daemon is there.
C26_Construction ==
    gPc = "returned" =>
        /\ ~gConfigOK =>
              gRet = GetResult(FALSE, Wrap(ConfigError, "getting instance config from DB"))
        /\ gConfigOK /\ ~gPresent => ~gRet.instance /\ gRet.err # Nil
        /\ gRet.instance => gConfigOK /\ gPresent

(***************************************************************************)
(* Image metadata: ImageMap.latestImage.                                   *)
(***************************************************************************)
Repositories == {"nginx", "redis"}

Tags == {"latest", "LATEST", "v1", "v2"}

\* flux.ImageDescription, as far as latestImage looks at it
ImageDescriptions == [Repository : Repositories, Tag : Tags]

NoImage == [Repository |-> "", Tag |-> ""]

\* the image lists of at most n images
ImageLists(n) == UNION {[1..k -> ImageDescriptions] : k \in 0..n}

\* ImageMap: the lists found for some of the repositories; the images of a
\* list are of the list's repository
ImageMaps ==
    {m \in UNION {[R -> ImageLists(MaxImages)] : R \in SUBSET Repositories} :
        \A r \in DOMAIN m : \A k \in 1..Len(m[r]) : m[r][k].Repository = r}

\* m[repo]: a repository the map has no entry for reads as the nil list
ImagesOf(m, repo) == IF repo \in DOMAIN m THEN m[repo] ELSE <<>>

\* the Unicode case folding of a tag, on the tags at hand
Fold(tag) == IF tag = "LATEST" THEN "latest" ELSE tag

\* strings.EqualFold(s, t)
EqualFold_Exact(s, t) == s = t

EqualFold(s, t) == Fold(s) = Fold(t)

\* the loop of latestImage over a list
RECURSIVE FirstReleasable(_)
FirstReleasable(images) ==
    IF images = <<>> THEN NoImage
    ELSE IF EqualFold(Head(images).Tag, "latest")
         THEN FirstReleasable(Tail(images))
         ELSE Head(images)

\* ImageMap.latestImage(repo); NoImage stands for the nil pointer
latestImage(m, repo) == FirstReleasable(ImagesOf(m, repo))

InitImages ==
    /\ lPc = "idle"
    /\ lMap = << >>
    /\ lRepo = ""
    /\ lRet = NoImage

\* m.latestImage(repo) is called and returns
LatestImageCalled(m, repo) ==
    /\ OnlyImages
    /\ lPc = "idle"
    /\ lMap' = m
    /\ lRepo' = repo
    /\ lRet' = latestImage(m, repo)
    /\ lPc' = "returned"

NextImages == \E m \in ImageMaps : \E repo \in Repositories : LatestImageCalled(m, repo)

\* the tags that are "latest" whatever the case of their letters
IsLatestTag(tag) == tag \in {"latest", "LATEST"}

\* C27: latest releasable image.  latestImage returns the first image of the
\* repository's list whose tag is not "latest" in any letter case, and nil
\* when the list is empty or has only such tags.
C27_LatestImage ==
    lPc = "returned" =>
        LET images == ImagesOf(lMap, lRepo)
            good == {k \in 1..Len(images) : ~IsLatestTag(images[k].Tag)}
        IN  IF good = {}
            THEN lRet = NoImage
            ELSE \E k \in good : /\ \A j \in good : k <= j
                                 /\ lRet = images[k]

\* an upper-case "LATEST" image comes first and a releasable one after it
C27_Witness ==
    /\ lPc = "returned"
    /\ Len(ImagesOf(lMap, lRepo)) = 2
    /\ ImagesOf(lMap, lRepo)[1].Tag = "LATEST"
    /\ lRet = ImagesOf(lMap, lRepo)[2]
    /\ lRet.Tag = "v1"

(***************************************************************************)
(* Cluster adapter: the queries AllServices, SomeServices and Export.      *)
(***************************************************************************)
Namespaces == <<"default", "kube-system">>

ObjectNames == {"a"}

ClusterService == "kubernetes.io/cluster-service"

AddonMode == "addonmanager.kubernetes.io/mode"

\* a Go map read: a missing key reads as the empty string
Lookup(labels, k) == IF k \in DOMAIN labels THEN labels[k] ELSE ""

\* the metadata labels objects bear
MetaLabels ==
    {<< >>,
     ClusterService :> "true",
     ClusterService :> "false",
     AddonMode :> "EnsureExists",
     AddonMode :> "Reconcile",
     (ClusterService :> "false") @@ (AddonMode :> "Reconcile")}

\* service.Spec.Selector
Selectors == {<< >>, [app |-> "x"], [app |-> ""], [app |-> "x", tier |-> "y"]}

\* Spec.Template.Labels of a pod controller
TemplateLabels == {<< >>, [app |-> "x"], [app |-> "x", tier |-> "y"]}

KubeServices ==
    [kind : {"Service"}, ns : Range(Namespaces), name : ObjectNames,
     labels : MetaLabels, selector : Selectors, template : {<< >>}]

PodControllers ==
    [kind : {"Deployment", "ReplicationController"}, ns : Range(Namespaces),
     name : ObjectNames, labels : MetaLabels, selector : {<< >>},
     template : TemplateLabels]

\* what the API server may hold: at most one object of a kind, namespace
\* and name
KubeClusters ==
    {S \cup D \cup R :
        S \in {{}} \cup {{o} : o \in KubeServices},
        D \in {{}} \cup {{o} : o \in {c \in PodControllers : c.kind = "Deployment"}},
        R \in {{}} \cup {{o} : o \in {c \in PodControllers : c.kind = "ReplicationController"}}}

isAddon_ClusterServiceOnly(obj) ==
    /\ obj.ns = "kube-system"
    /\ Lookup(obj.labels, ClusterService) = "true"

isAddon(obj) ==
    /\ obj.ns = "kube-system"
    /\ \/ Lookup(obj.labels, ClusterService) = "true"
       \/ Lookup(obj.labels, AddonMode) = "EnsureExists"
       \/ Lookup(obj.labels, AddonMode) = "Reconcile"

\* c.client.<Kind>(namespace).List
ListObjects(kind, namespace) ==
    {o \in kObjects : o.kind = kind /\ o.ns = namespace}

\* the deployments, then the replication controllers of the namespace,
\* without the addons
podControllersInNamespace(namespace) ==
    {c \in ListObjects("Deployment", namespace) : ~isAddon(c)}
        \cup {c \in ListObjects("ReplicationController", namespace) : ~isAddon(c)}

matchedBy(p, selector) ==
    \A k \in DOMAIN selector : Lookup(p.template, k) = selector[k]

ErrEmptySelector == "empty selector"
ErrNoMatching == "no matching controllers"
ErrMultipleMatching == "many matching controllers"

NoController ==
    [kind |-> "", ns |-> "", name |-> "", labels |-> << >>, selector |-> << >>,
     template |-> << >>]

\* matchController(service, controllers): the controller and the error
matchController(service, controllers) ==
    LET selector == service.selector
        matching == {c \in controllers : matchedBy(c, selector)}
    IN  IF DOMAIN selector = {} THEN [pc |-> NoController, err |-> ErrEmptySelector]
        ELSE IF Cardinality(matching) = 1
             THEN [pc |-> CHOOSE c \in matching : TRUE, err |-> ""]
        ELSE IF Cardinality(matching) = 0
             THEN [pc |-> NoController, err |-> ErrNoMatching]
        ELSE [pc |-> NoController, err |-> ErrMultipleMatching]

StatusUnknown == "unknown"
StatusReady == "ready"

\* the containers of the controller's pod template: one, named after the
\* controller and running an image of its own
templateContainers(p) == <<[Name |-> p.name, Image |-> p.kind]>>

\* the rollout status of a controller; the controllers at hand are rolled out
status(p) == StatusReady

\* Cluster.makeService(ns, service, controllers): a platform.Service
makeService_NoExcuse(ns, service, controllers) ==
    LET m == matchController(service, controllers)
    IN  IF m.err # ""
        THEN [ID |-> <<ns, service.name>>, Containers |-> << >>, Excuse |-> "",
              Status |-> StatusUnknown]
        ELSE [ID |-> <<ns, service.name>>, Containers |-> templateContainers(m.pc),
              Excuse |-> "", Status |-> status(m.pc)]

makeService(ns, service, controllers) ==
    LET m == matchController(service, controllers)
    IN  IF m.err # ""
        THEN [ID |-> <<ns, service.name>>, Containers |-> << >>, Excuse |-> m.err,
              Status |-> StatusUnknown]
        ELSE [ID |-> <<ns, service.name>>, Containers |-> templateContainers(m.pc),
              Excuse |-> "", Status |-> status(m.pc)]

\* a set of at most one element as a list
AsList(S) == IF S = {} THEN << >> ELSE <<CHOOSE x \in S : TRUE>>

\* the loop of AllServices over the namespaces
RECURSIVE ServicesIn(_)
ServicesIn(namespaces) ==
    IF namespaces = << >> THEN << >>
    ELSE LET ns == Head(namespaces)
             controllers == podControllersInNamespace(ns)
             list == {s \in ListObjects("Service", ns) : ~isAddon(s)}
         IN  AsList({makeService(ns, s, controllers) : s \in list})
             \o ServicesIn(Tail(namespaces))

\* Cluster.AllServices(namespace); API calls are taken to succeed
Cluster_AllServices(namespace) ==
    ServicesIn(IF namespace = "" THEN Namespaces ELSE <<namespace>>)

\* the loop of SomeServices over the names asked for in a namespace
RECURSIVE NamedIn(_, _)
NamedIn(ns, names) ==
    IF names = << >> THEN << >>
    ELSE LET got == {s \in ListObjects("Service", ns) : s.name = Head(names)}
             shown == {s \in got : ~isAddon(s)}
         IN  AsList({makeService(ns, s, podControllersInNamespace(ns)) : s \in shown})
             \o NamedIn(ns, Tail(names))

\* the names asked for in a namespace, in the order of the IDs
NamesIn(ns, idlist) ==
    LET mine == SelectSeq(idlist, LAMBDA id : id[1] = ns)
    IN  [k \in 1..Len(mine) |-> mine[k][2]]

RECURSIVE SomeIn(_, _)
SomeIn(nsOrder, idlist) ==
    IF nsOrder = << >> THEN << >>
    ELSE NamedIn(Head(nsOrder), NamesIn(Head(nsOrder), idlist))
         \o SomeIn(Tail(nsOrder), idlist)

\* Cluster.SomeServices(ids): the results it may give, one for each order
\* in which the map of namespaces is ranged over
Cluster_SomeServices(idlist) ==
    {SomeIn(q, idlist) : q \in Orderings({id[1] : id \in Range(idlist)})}

\* the documents appendYAML writes for a set of objects of one kind
Documents(objs) == AsList({o \in objs : ~isAddon(o)})

NamespaceObject(ns) ==
    [kind |-> "Namespace", ns |-> "", name |-> ns, labels |-> << >>,
     selector |-> << >>, template |-> << >>]

\* the loop of Export over the namespaces
RECURSIVE ExportOf(_)
ExportOf(namespaces) ==
    IF namespaces = << >> THEN << >>
    ELSE LET ns == Head(namespaces)
         IN  <<NamespaceObject(ns)>>
             \o Documents(ListObjects("Deployment", ns))
             \o Documents(ListObjects("ReplicationController", ns))
             \o Documents(ListObjects("Service", ns))
             \o ExportOf(Tail(namespaces))

\* Cluster.Export(): the documents of the YAML it returns
Cluster_Export == ExportOf(Namespaces)

\* the lists of IDs SomeServices is asked for
IDLists ==
    {<< >>, <<<<"default", "a">>>>, <<<<"kube-system", "a">>>>, <<<<"default", "b">>>>,
     <<<<"kube-system", "a">>, <<"default", "a">>>>}

NoQuery == [op |-> "", arg |-> << >>]

InitKube ==
    /\ kPc = "idle"
    /\ kObjects = {}
    /\ kQuery = NoQuery
    /\ kResult = << >>

\* objects are created in the cluster
ObjectsCreated ==
    /\ OnlyKube
    /\ kPc = "idle"
    /\ kObjects' \in KubeClusters
    /\ kPc' = "ready"
    /\ UNCHANGED <<kQuery, kResult>>

AllServicesCalled(namespace) ==
    /\ OnlyKube
    /\ kPc = "ready"
    /\ kQuery' = [op |-> "AllServices", arg |-> namespace]
    /\ kResult' = Cluster_AllServices(namespace)
    /\ kPc' = "answered"
    /\ UNCHANGED kObjects

SomeServicesCalled(idlist) ==
    /\ OnlyKube
    /\ kPc = "ready"
    /\ kQuery' = [op |-> "SomeServices", arg |-> idlist]
    /\ kResult' \in Cluster_SomeServices(idlist)
    /\ kPc' = "answered"
    /\ UNCHANGED kObjects

ExportCalled ==
    /\ OnlyKube
    /\ kPc = "ready"
    /\ kQuery' = [op |-> "Export", arg |-> << >>]
    /\ kResult' = Cluster_Export
    /\ kPc' = "answered"
    /\ UNCHANGED kObjects

NextKube ==
    \/ ObjectsCreated
    \/ \E namespace \in {""} \cup Range(Namespaces) : AllServicesCalled(namespace)
    \/ \E idlist \in IDLists : SomeServicesCalled(idlist)
    \/ ExportCalled

(***************************************************************************)
(* Clusters with a service in each namespace, for the enumerations.        *)
(***************************************************************************)
\* none, or one of the objects of S
AtMostOne(S) == {{}} \cup {{o} : o \in S}

ServicesOf(ns) ==
    {o \in KubeServices :
        o.ns = ns /\ o.labels \in {<< >>, ClusterService :> "true"}}

ControllersOf(ns, kind, templates) ==
    {c \in PodControllers :
        c.ns = ns /\ c.kind = kind /\ c.labels = << >> /\ c.template \in templates}

ObjectsOf(ns) ==
    {S \cup D \cup R :
        S \in AtMostOne(ServicesOf(ns)),
        D \in AtMostOne(ControllersOf(ns, "Deployment", TemplateLabels)),
        R \in AtMostOne(ControllersOf(ns, "ReplicationController", {[app |-> "x"]}))}

ServiceClusters ==
    {A \cup B : A \in ObjectsOf(Namespaces[1]), B \in ObjectsOf(Namespaces[2])}

\* services and their controllers are created in the cluster
ServicesCreated ==
    /\ OnlyKube
    /\ kPc = "idle"
    /\ kObjects' \in ServiceClusters
    /\ kPc' = "ready"
    /\ UNCHANGED <<kQuery, kResult>>

NextEnumerate ==
    \/ ServicesCreated
    \/ \E namespace \in {""} \cup Range(Namespaces) : AllServicesCalled(namespace)
    \/ \E idlist \in IDLists : SomeServicesCalled(idlist)

\* the manifest an applier call of a closure was made with
ManifestOf(e, call) ==
    IF call.op = "delete" THEN e.spec[call.i].Delete ELSE e.spec[call.i].Apply

\* C23: addons are not sync-eligible.  No manifest that describes an addon
\* resource is passed to the applier's Apply or Delete.
C23_AddonsNotSynced ==
    \A c \in Callers : \A k \in 1..Len(exec[c].calls) :
        exec[c].calls[k].err # ParseError =>
            ManifestOf(exec[c], exec[c].calls[k]) # AddonManifest

(***************************************************************************)
(* Properties of the queries.                                              *)
(***************************************************************************)
\* a query for services has been answered
ServicesAnswered == kPc = "answered" /\ kQuery.op \in {"AllServices", "SomeServices"}

\* the service object a platform.Service of a result was made from
ObjectOf(svc) ==
    CHOOSE o \in kObjects : o.kind = "Service" /\ <<o.ns, o.name>> = svc.ID

\* the pod-template labels contain every selector key with the same value
HasLabels(template, selector) ==
    \A k \in DOMAIN selector : k \in DOMAIN template /\ template[k] = selector[k]

\* C21: controller matching.  A service is linked to a controller exactly
\* when its selector is non-empty and exactly one of the controllers has
\* pod-template labels that contain every selector key with the same value;
\* an empty selector gives the empty-selector error, no such controller
\* no-matching, and two or more multiple-matching.
C21_Matching ==
    ServicesAnswered =>
        \A k \in 1..Len(kResult) :
            LET svc == kResult[k]
                selector == ObjectOf(svc).selector
                fit == {c \in podControllersInNamespace(svc.ID[1]) :
                           HasLabels(c.template, selector)}
            IN  /\ svc.Excuse = "" <=> DOMAIN selector # {} /\ Cardinality(fit) = 1
                /\ svc.Excuse = "" => \E c \in fit : svc.Containers = templateContainers(c)
                /\ DOMAIN selector = {} => svc.Excuse = ErrEmptySelector
                /\ DOMAIN selector # {} /\ fit = {} => svc.Excuse = ErrNoMatching
                /\ DOMAIN selector # {} /\ Cardinality(fit) > 1 =>
                       svc.Excuse = ErrMultipleMatching

\* a resource in kube-system that bears an addon label
IsAddonResource(o) ==
    /\ o.ns = "kube-system"
    /\ \/ ClusterService \in DOMAIN o.labels /\ o.labels[ClusterService] = "true"
       \/ AddonMode \in DOMAIN o.labels /\ o.labels[AddonMode] \in {"EnsureExists", "Reconcile"}

\* C22: addon invisibility.  No addon resource appears in the result of
\* AllServices, SomeServices or Export, and every service of a result is
\* what it would be were the addon controllers not in the cluster.
C22_AddonsInvisible ==
    /\ ServicesAnswered =>
          \A k \in 1..Len(kResult) :
              LET svc == kResult[k]
                  visible == {c \in kObjects :
                                 /\ c.kind \in {"Deployment", "ReplicationController"}
                                 /\ c.ns = svc.ID[1]
                                 /\ ~IsAddonResource(c)}
              IN  /\ ~IsAddonResource(ObjectOf(svc))
                  /\ svc = makeService(svc.ID[1], ObjectOf(svc), visible)
    /\ kPc = "answered" /\ kQuery.op = "Export" =>
          \A k \in 1..Len(kResult) : ~IsAddonResource(kResult[k])

\* a service of kube-system that is no addon is linked to the replication
\* controller, beside an addon deployment with the same labels
C22_Witness ==
    /\ ServicesAnswered
    /\ \E k \in 1..Len(kResult) :
          /\ kResult[k].ID[1] = "kube-system"
          /\ kResult[k].Containers = <<[Name |-> "a", Image |-> "ReplicationController"]>>
    /\ \E d \in kObjects :
          /\ d.kind = "Deployment" /\ IsAddonResource(d) /\ d.template = [app |-> "x"]
          /\ AddonMode \in DOMAIN d.labels
    /\ \E s \in kObjects : s.kind = "Service" /\ s.selector = [app |-> "x"]

\* the IDs of the services a query asks for that exist and are no addons
Asked ==
    {<<o.ns, o.name>> : o \in {o \in kObjects :
        /\ o.kind = "Service"
        /\ ~IsAddonResource(o)
        /\ IF kQuery.op = "AllServices"
           THEN kQuery.arg = "" \/ kQuery.arg = o.ns
           ELSE <<o.ns, o.name>> \in Range(kQuery.arg)}}

\* C35: controller-matching failures never abort enumeration.  Every
\* service asked for is in the result of AllServices and SomeServices,
\* once; one whose controller match failed has the failure as its Excuse,
\* no containers and status unknown, and one whose match succeeded has
\* containers and no excuse.
C35_MatchFailureListed ==
    ServicesAnswered =>
        /\ {kResult[k].ID : k \in 1..Len(kResult)} = Asked
        /\ Len(kResult) = Cardinality(Asked)
        /\ \A k \in 1..Len(kResult) :
              LET svc == kResult[k]
                  selector == ObjectOf(svc).selector
                  fit == {c \in podControllersInNamespace(svc.ID[1]) :
                             matchedBy(c, selector)}
                  failed == DOMAIN selector = {} \/ Cardinality(fit) # 1
              IN  /\ failed =>
                        /\ svc.Excuse \in {ErrEmptySelector, ErrNoMatching, ErrMultipleMatching}
                        /\ svc.Containers = << >>
                        /\ svc.Status = StatusUnknown
                  /\ ~failed =>
                        /\ svc.Excuse = ""
                        /\ svc.Containers # << >>

\* two services are listed, the first with an excuse, the second matched
C35_Witness ==
    /\ ServicesAnswered
    /\ Len(kResult) = 2
    /\ kResult[1].Excuse = ErrMultipleMatching
    /\ kResult[2].Excuse = "" /\ kResult[2].Containers # << >>

(***************************************************************************)
(* Release engine: writeUpdates.                                           *)
(***************************************************************************)
ManifestPaths == {"a.yaml", "b.yaml"}

FileModes == {"0644", "0755"}

ManifestContents == {"new", "newer"}

\* a file of the working copy
File(mode, bytes) == [mode |-> mode, bytes |-> bytes]

\* the working copy: the files it has, each with a mode and some bytes
WorkingCopies ==
    UNION {[P -> {File(m, "old") : m \in FileModes}] : P \in SUBSET ManifestPaths}

\* the fields of a ServiceUpdate that writeUpdates reads
WrittenUpdates == [ManifestPath : ManifestPaths, ManifestBytes : ManifestContents]

UpdateLists == UNION {[1..n -> WrittenUpdates] : n \in 0..MaxWrites}

StatError == PlainError(<<"stat: no such file or directory">>)

WriteError == PlainError(<<"write failed">>)

\* ioutil.WriteFile(path, data, perm) when it succeeds: the file is opened
\* with O_WRONLY|O_CREATE|O_TRUNC, so perm is used only for a file that is
\* created, and a file that exists keeps its mode
WriteFile_Recreate(d, path, data, perm) ==
    [p \in DOMAIN d \cup {path} |-> IF p = path THEN File("0644", data) ELSE d[p]]

WriteFile(d, path, data, perm) ==
    [p \in DOMAIN d \cup {path} |->
        IF p = path
        THEN File(IF path \in DOMAIN d THEN d[path].mode ELSE perm, data)
        ELSE d[p]]

\* what a failed WriteFile may leave: the file as it was (open failed), or
\* truncated (the write failed)
FailedWrites(d, path) ==
    {d, [d EXCEPT ![path] = File(d[path].mode, "")]}

InitDisk ==
    /\ wPc = "idle"
    /\ before = << >>
    /\ disk = << >>
    /\ wUpdates = << >>
    /\ wNext = 1
    /\ wFi = ""
    /\ wErr = Nil
    /\ pushed = 0
    /\ pRet = Nil

\* PushChanges(updates, spec) calls writeUpdates(updates) on a working copy
WriteUpdatesCalled ==
    /\ OnlyDisk
    /\ UNCHANGED <<pushed, pRet>>
    /\ wPc = "idle"
    /\ disk' \in WorkingCopies
    /\ before' = disk'
    /\ wUpdates' \in UpdateLists
    /\ wNext' = 1
    /\ wPc' = "loop"
    /\ UNCHANGED <<wFi, wErr>>

\* fi, err := os.Stat(update.ManifestPath)
Stat ==
    /\ OnlyDisk
    /\ UNCHANGED <<pushed, pRet>>
    /\ wPc = "loop"
    /\ wNext <= Len(wUpdates)
    /\ LET path == wUpdates[wNext].ManifestPath
       IN  IF path \in DOMAIN disk
           THEN wFi' = disk[path].mode /\ wPc' = "write" /\ UNCHANGED wErr
           ELSE wErr' = StatError /\ wPc' = "returned" /\ UNCHANGED wFi
    /\ UNCHANGED <<before, disk, wUpdates, wNext>>

\* ioutil.WriteFile(update.ManifestPath, update.ManifestBytes, fi.Mode())
\* returns nil
Write ==
    /\ OnlyDisk
    /\ UNCHANGED <<pushed, pRet>>
    /\ wPc = "write"
    /\ LET update == wUpdates[wNext]
       IN  disk' = WriteFile(disk, update.ManifestPath, update.ManifestBytes, wFi)
    /\ wNext' = wNext + 1
    /\ wPc' = "loop"
    /\ UNCHANGED <<before, wUpdates, wFi, wErr>>

\* ioutil.WriteFile returns an error
WriteFails ==
    /\ OnlyDisk
    /\ UNCHANGED <<pushed, pRet>>
    /\ wPc = "write"
    /\ disk' \in FailedWrites(disk, wUpdates[wNext].ManifestPath)
    /\ wErr' = WriteError
    /\ wPc' = "returned"
    /\ UNCHANGED <<before, wUpdates, wNext, wFi>>

\* the loop is over: return nil
WriteUpdatesReturns ==
    /\ OnlyDisk
    /\ UNCHANGED <<pushed, pRet>>
    /\ wPc = "loop"
    /\ wNext > Len(wUpdates)
    /\ wErr' = Nil
    /\ wPc' = "returned"
    /\ UNCHANGED <<before, disk, wUpdates, wNext, wFi>>

PushError == PlainError(<<"git push failed">>)

\* `err := writeUpdates(updates); if err != nil { return err }`
GoesOnToCommit_Always(err) == TRUE

GoesOnToCommit(err) == err = Nil

\* PushChanges returns the error of writeUpdates
PushChangesFails ==
    /\ OnlyDisk
    /\ wPc = "returned"
    /\ ~GoesOnToCommit(wErr)
    /\ pRet' = wErr
    /\ wPc' = "pushReturned"
    /\ UNCHANGED <<before, disk, wUpdates, wNext, wFi, wErr, pushed>>

\* return rc.CommitAndPush(commitMsg): it fails or not
CommitAndPush ==
    /\ OnlyDisk
    /\ wPc = "returned"
    /\ GoesOnToCommit(wErr)
    /\ pushed' = pushed + 1
    /\ pRet' \in {Nil, PushError}
    /\ wPc' = "pushReturned"
    /\ UNCHANGED <<before, disk, wUpdates, wNext, wFi, wErr>>

NextDisk ==
    \/ WriteUpdatesCalled
    \/ Stat
    \/ Write
    \/ WriteFails
    \/ WriteUpdatesReturns
    \/ PushChangesFails
    \/ CommitAndPush

\* C25: file mode preservation.  Every write of a manifest by writeUpdates
\* leaves the file with the mode it had before the release and with the
\* update's ManifestBytes as its bytes.
C25_ModePreserved ==
    [][wPc = "write" /\ wNext' = wNext + 1 =>
          LET update == wUpdates[wNext]
              path == update.ManifestPath
          IN  /\ path \in DOMAIN disk'
              /\ disk'[path].mode = before[path].mode
              /\ disk'[path].bytes = update.ManifestBytes]_vars

\* two manifests with different modes have been written and writeUpdates
\* has returned nil
C25_Witness ==
    /\ wPc = "returned" /\ wErr = Nil
    /\ Len(wUpdates) = 2
    /\ DOMAIN before = ManifestPaths
    /\ before["a.yaml"].mode = "0755" /\ before["b.yaml"].mode = "0644"
    /\ disk["a.yaml"] = File("0755", "new")
    /\ disk["b.yaml"] = File("0644", "newer")

(***************************************************************************)
(* Properties of PushChanges.                                              *)
(***************************************************************************)
\* update k was written and no later update that was tried names its file
LastWritten(k) ==
    /\ k < wNext
    /\ \A j \in (k + 1)..Len(wUpdates) :
          j <= wNext => wUpdates[j].ManifestPath # wUpdates[k].ManifestPath

\* update k was not reached and no update that was tried names its file
Untouched(k) ==
    /\ k > wNext
    /\ \A j \in 1..(k - 1) :
          j <= wNext => wUpdates[j].ManifestPath # wUpdates[k].ManifestPath

\* C32: write before commit.  PushChanges attempts the commit-and-push only
\* after every manifest has been written; when the stat or the write of a
\* manifest fails it returns that error without attempting a commit, the
\* manifests written before stay written and those after stay as they were.
C32_WriteBeforeCommit ==
    wPc = "pushReturned" =>
        /\ pushed <= 1
        /\ pushed = 1 =>
              /\ wErr = Nil
              /\ \A k \in 1..Len(wUpdates) :
                    LastWritten(k) =>
                        disk[wUpdates[k].ManifestPath].bytes = wUpdates[k].ManifestBytes
              /\ \A k \in 1..Len(wUpdates) : k < wNext
        /\ wErr # Nil =>
              /\ pRet = wErr
              /\ pushed = 0
              /\ \A k \in 1..Len(wUpdates) :
                    /\ LastWritten(k) =>
                          disk[wUpdates[k].ManifestPath].bytes = wUpdates[k].ManifestBytes
                    /\ Untouched(k) =>
                          /\ wUpdates[k].ManifestPath \in DOMAIN disk
                                <=> wUpdates[k].ManifestPath \in DOMAIN before
                          /\ wUpdates[k].ManifestPath \in DOMAIN disk =>
                                disk[wUpdates[k].ManifestPath]
                                    = before[wUpdates[k].ManifestPath]

\* the first manifest was written and the write of the second, of another
\* file, failed
C32_Witness ==
    /\ wPc = "pushReturned" /\ pRet = WriteError /\ pushed = 0
    /\ Len(wUpdates) = 2 /\ wNext = 2
    /\ wUpdates[1].ManifestPath # wUpdates[2].ManifestPath
    /\ disk[wUpdates[1].ManifestPath].bytes = wUpdates[1].ManifestBytes

(***************************************************************************)
(* Manifest annotations: applyAnnotation and removeAnnotation, on the      *)
(* manifests that annotationsTemplate renders.                             *)
(***************************************************************************)
annotationKey == "flux.policy.automated"

\* the annotation keys at hand, in the order a template ranges over a map
AnnotationKeys == <<"description", annotationKey, "prometheus.io.scrape">>

AnnotationValues == {"true", "false"}

\* map[string]string over the keys
AnnotationMaps ==
    UNION {[K -> AnnotationValues] : K \in SUBSET Range(AnnotationKeys)}

noAnnotations == << >>

annotation == annotationKey :> "true"

annotation2 == annotationKey :> "false"

allAnnotations == annotation @@ ("prometheus.io.scrape" :> "false")

allAnnotations2 == annotation2 @@ ("prometheus.io.scrape" :> "false")

\* a line of a manifest: plain text, or an annotation with its value
TextLine(text) == [text |-> text, value |-> "", entry |-> FALSE]

EntryLine(k, v) == [text |-> k, value |-> v, entry |-> TRUE]

\* the template up to `name: nginx`
Preamble ==
    <<TextLine("---"), TextLine("apiVersion: extensions/v1beta1"),
      TextLine("kind: Deployment"), TextLine("metadata:"), TextLine("  name: nginx")>>

SectionLine == TextLine("\tannotations:")

\* the template from `spec:` on
Body ==
    <<TextLine("spec:"), TextLine("  replicas: 1"), TextLine("  template:"),
      TextLine("    metadata:"), TextLine("      labels:"),
      TextLine("        name: nginx"), TextLine("    spec:"),
      TextLine("      containers:"), TextLine("      - name: nginx"),
      TextLine("        image: nginx"), TextLine("        ports:"),
      TextLine("        - containerPort: 80")>>

\* {{range $k, $v := .}}: one line for each key, in the order of the keys
Entries_Reversed(ann) ==
    LET ks == SelectSeq(AnnotationKeys, LAMBDA k : k \in DOMAIN ann)
    IN  [i \in 1..Len(ks) |-> EntryLine(ks[Len(ks) + 1 - i], ann[ks[Len(ks) + 1 - i]])]

Entries(ann) ==
    LET ks == SelectSeq(AnnotationKeys, LAMBDA k : k \in DOMAIN ann)
    IN  [i \in 1..Len(ks) |-> EntryLine(ks[i], ann[ks[i]])]

\* {{with .Annotations}}: nothing for an empty map
Section_Always(ann) == <<SectionLine>> \o Entries(ann)

Section(ann) ==
    IF DOMAIN ann = {} THEN << >> ELSE <<SectionLine>> \o Entries(ann)

\* templToString(t, annotationsTemplate, ann)
templToString(ann) == Preamble \o Section(ann) \o Body

InsertAt(lines, i, new) ==
    SubSeq(lines, 1, i) \o new \o SubSeq(lines, i + 1, Len(lines))

RemoveAt(lines, i) == SubSeq(lines, 1, i - 1) \o SubSeq(lines, i + 1, Len(lines))

KeyRank(k) == CHOOSE i \in 1..Len(AnnotationKeys) : AnnotationKeys[i] = k

EntryIndexes(lines) == {i \in 1..Len(lines) : lines[i].entry}

\* the manifest with annotation k set to v: a line that has the key gets
\* the value, otherwise a line is added in the section, in the order of the
\* keys, and a manifest without a section gets one after the name
SetAnnotation(lines, k, v) ==
    LET has == {i \in EntryIndexes(lines) : lines[i].text = k}
        head == {i \in 1..Len(lines) : lines[i] = SectionLine}
        name == CHOOSE i \in 1..Len(lines) : lines[i] = TextLine("  name: nginx")
    IN  IF has # {}
        THEN [lines EXCEPT ![CHOOSE i \in has : TRUE] = EntryLine(k, v)]
        ELSE IF head # {}
             THEN InsertAt(lines,
                      (CHOOSE i \in head : TRUE)
                          + Cardinality({i \in EntryIndexes(lines) :
                                            KeyRank(lines[i].text) < KeyRank(k)}),
                      <<EntryLine(k, v)>>)
             ELSE InsertAt(lines, name, <<SectionLine, EntryLine(k, v)>>)

\* applyAnnotation(in, ann, trace, out): what it writes to out
RECURSIVE applyAnnotationFrom(_, _, _)
applyAnnotationFrom(lines, ann, i) ==
    IF i > Len(AnnotationKeys) THEN lines
    ELSE LET k == AnnotationKeys[i]
         IN  applyAnnotationFrom(
                 IF k \in DOMAIN ann THEN SetAnnotation(lines, k, ann[k]) ELSE lines,
                 ann, i + 1)

applyAnnotation(lines, ann) == applyAnnotationFrom(lines, ann, 1)

\* removeAnnotation(in, key, trace, out): what it writes to out; the line of
\* the key goes, and the section with its last line
removeAnnotation(lines, key) ==
    LET has == {i \in EntryIndexes(lines) : lines[i].text = key}
        less == IF has = {} THEN lines ELSE RemoveAt(lines, CHOOSE i \in has : TRUE)
    IN  IF EntryIndexes(less) = {}
        THEN SelectSeq(less, LAMBDA l : l # SectionLine)
        ELSE less

NoCall == [op |-> "", ann |-> << >>, key |-> "", n |-> 0]

InitAnnotations ==
    /\ mPc = "idle"
    /\ mIn = << >>
    /\ mCall = NoCall
    /\ mOut = << >>

\* a manifest is at hand, rendered from the template
ManifestRendered(ann) ==
    /\ OnlyAnnotations
    /\ mPc = "idle"
    /\ mOut' = templToString(ann)
    /\ mPc' = "ready"
    /\ UNCHANGED <<mIn, mCall>>

\* applyAnnotation is called on the manifest at hand
ApplyAnnotationCalled(ann) ==
    /\ OnlyAnnotations
    /\ mPc \in {"ready", "returned"}
    /\ mCall.n < MaxEdits
    /\ mIn' = mOut
    /\ mCall' = [op |-> "apply", ann |-> ann, key |-> "", n |-> mCall.n + 1]
    /\ mOut' = applyAnnotation(mOut, ann)
    /\ mPc' = "returned"

\* removeAnnotation is called on the manifest at hand
RemoveAnnotationCalled(key) ==
    /\ OnlyAnnotations
    /\ mPc \in {"ready", "returned"}
    /\ mCall.n < MaxEdits
    /\ mIn' = mOut
    /\ mCall' = [op |-> "remove", ann |-> << >>, key |-> key, n |-> mCall.n + 1]
    /\ mOut' = removeAnnotation(mOut, key)
    /\ mPc' = "returned"

NextAnnotations ==
    \/ \E ann \in AnnotationMaps : ManifestRendered(ann)
    \/ \E ann \in AnnotationMaps \ {noAnnotations} : ApplyAnnotationCalled(ann)
    \/ \E key \in Range(AnnotationKeys) : RemoveAnnotationCalled(key)

\* the annotations a manifest has, read off its lines
AnnotationsOf(lines) ==
    [k \in {lines[i].text : i \in EntryIndexes(lines)} |->
        (CHOOSE l \in Range(lines) : l.entry /\ l.text = k).value]

\* the lines of a manifest that are not of its annotations section
RestOf(lines) == SelectSeq(lines, LAMBDA l : ~l.entry /\ l # SectionLine)

Init ==
    /\ InitBus /\ InitSync /\ InitDaemon /\ InitRelease /\ InitClient
    /\ InitInstance /\ InitImages /\ InitKube /\ InitDisk /\ InitAnnotations

SpecBus == Init /\ [][NextBus]_vars

\* The goroutines of the bus keep running: the request loop, the tear-down
\* and every processRequest task take their next step when they can, and
\* the maximum-age timer does fire.
FairBus ==
    \A s \in Subs :
        /\ WF_vars(PublishKick(s))
        /\ WF_vars(EnterSelect(s))
        /\ WF_vars(RecvRequest(s))
        /\ WF_vars(TimerFires(s))
        /\ WF_vars(TearDown(s))
        /\ WF_vars(\E h \in handlers[s] : HandleKick(s, h))
        /\ WF_vars(\E h \in handlers[s] : HandlePing(s, h))
        /\ WF_vars(\E h \in handlers[s] : HandlerEnds(s, h))

SpecBusFair == SpecBus /\ FairBus

\* a loop that has left its select for the tear-down goes through with it
FairTearDown == \A s \in Subs : WF_vars(TearDown(s))

SpecBusAgeing == SpecBus /\ FairTearDown

\* The request loop and the tasks of the quick handlers keep running; the
\* SyncCluster handler may take for ever.
FairServe ==
    \A s \in Serving :
        /\ WF_vars(EnterSelect(s))
        /\ WF_vars(RecvRequest(s))
        /\ WF_vars(TearDown(s))
        /\ WF_vars(\E h \in handlers[s] : HandleKick(s, h))
        /\ WF_vars(\E h \in handlers[s] : HandlePing(s, h))
        /\ WF_vars(\E h \in handlers[s] : HandlerEnds(s, h))

SpecServe == Init /\ [][NextServe]_vars /\ FairServe

SpecReply == Init /\ [][NextReply]_vars

\* Go's select picks among its ready cases at random, so a case that stays
\* ready is taken; and time passes.
FairClient == WF_vars(DeadlinePasses) /\ WF_vars(PresenceTimeout)

SpecClient == Init /\ [][NextClient]_vars /\ FairClient

SpecSync == Init /\ [][NextSync]_vars

SpecDaemon == Init /\ [][NextDaemon]_vars

SpecRelease == Init /\ [][NextRelease]_vars

SpecImages == Init /\ [][NextImages]_vars

SpecKube == Init /\ [][NextKube]_vars

SpecEnumerate == Init /\ [][NextEnumerate]_vars

SpecDisk == Init /\ [][NextDisk]_vars

SpecAnnotations == Init /\ [][NextAnnotations]_vars

====
